---- MODULE Spec2Model ----
(***************************************************************************)
(* Execution-correlation and artifact-archival pipeline of the digest      *)
(* service: artifact validation (mcp/validators.py), archival              *)
(* (mcp_tools/services/digest_submitter.py and mcp_tools/repositories) and *)
(* stream reduction (services/claude_service.py).                          *)
(***************************************************************************)
EXTENDS Integers, Sequences, FiniteSets, TLC

VARIABLES
    input,        \* the submission handed to validate / submit
    errors,       \* the error list returned by validate_daily_digest
    pc,           \* position of the process the specification is about
    categories,   \* table categories: rows [id, mission_id, name]
    digests,      \* table daily_digests: rows [id, mission_id, date, content]
    articles,     \* table articles: rows keyed by url
    catSeq,       \* id sequence of table categories
    digestSeq,    \* id sequence of table daily_digests
    today,        \* date.today()
    file,         \* the artifact file digest.json of the run directory
    connects,     \* number of database connections opened so far
    response,     \* the dict returned by the last DigestSubmitter.submit
    hist,         \* statuses returned by the submit calls so far
    stream,       \* stdout of the agent subprocess, one record per line
    claudeResult, \* the ClaudeResult returned by parse_stream_output
    renderIn,     \* arguments of one format_execution_summary call
    summaryOut,   \* the text format_execution_summary returned
    logsDir,      \* run directories under logs_dir: path :> files
    workflows,    \* files of logs_dir/workflows: name :> text
    latest,       \* target of the symlink logs_dir/latest
    handle,       \* outcome of the last get_execution_dir / WorkflowLogger.save
    calls,        \* number of calls the two loggers have answered
    runs,         \* handle_summarize calls in progress: run :> its locals
    articlesFile, \* content of data_path/articles.json
    categoryNameUnique \* table categories has UNIQUE (mission_id, name)

vars == <<input, errors, pc, categories, digests, articles, catSeq, digestSeq,
          today, file, connects, response, hist, stream, claudeResult,
          renderIn, summaryOut, logsDir, workflows, latest, handle, calls,
          runs, articlesFile, categoryNameUnique>>

dbVars == <<categories, digests, articles, catSeq, digestSeq>>
submitVars == <<categories, digests, articles, catSeq, digestSeq, today, file,
                connects, response, hist>>
streamVars == <<stream, claudeResult>>
renderVars == <<renderIn, summaryOut>>
logVars == <<logsDir, workflows, latest, handle, calls>>
handleVars == <<runs, articlesFile>>
schemaVars == <<categoryNameUnique>>
orchVars == <<renderIn, summaryOut, logsDir, workflows, latest, handle, calls,
              runs, articlesFile, categoryNameUnique>>

(***************************************************************************)
(* Bounds                                                                  *)
(***************************************************************************)
MaxItems == 2      \* longest list of the richly varied section of a submission
MaxMissing == 2    \* most fields a drawn item lacks
MaxSubmits == 2    \* submit calls in one behaviour
MaxDay == 2        \* last logical date
MaxFailPoint == 4  \* latest statement of a transaction that may raise
MaxLines == 3      \* lines of one captured stdout
MaxCalls == 1      \* calls of get_execution_dir and WorkflowLogger.save
MaxProcs == 2      \* agent subprocesses spawned, over all runs
MaxPatches == 2    \* reports patched into one summary

(***************************************************************************)
(* Values                                                                  *)
(***************************************************************************)
NULL == "<NULL>"   \* SQL NULL / Python None where a string is expected
NoId == 0          \* None where a row id is expected (serial ids start at 1)

\* the value of F at x, with x computed once
With(x, F(_)) == CHOOSE r \in {F(v) : v \in {x}} : TRUE

RECURSIVE SetToSeq(_)
SetToSeq(S) ==
    IF S = {} THEN <<>>
    ELSE LET x == CHOOSE y \in S : TRUE IN <<x>> \o SetToSeq(S \ {x})

\* a number as Python holds it: an int, or a float given in tenths
IntVal(n) == [t |-> "int", v10 |-> 10 * n]
FloatVal(tenths) == [t |-> "float", v10 |-> tenths]
StrVal == [t |-> "str", v10 |-> 0]
NoneVal == [t |-> "none", v10 |-> 0]
IsNumber(x) == x.t \in {"int", "float"}

(***************************************************************************)
(* mcp/validators.py                                                       *)
(***************************************************************************)
VALID_EXCLUSION_REASONS == {"off_topic", "duplicate", "low_priority", "outdated"}

NEWS_ITEM_REQUIRED_FIELDS ==
    {"title", "summary", "url", "source", "category", "confidence"}

EXCLUDED_ITEM_REQUIRED_FIELDS == {"url", "title", "category", "reason", "score"}

required_meta == <<"articles_analyzed", "web_searches", "research_doc">>

\* an error string "<section>[<index>]: <kind> '<field>'", kept by its parts
Err(section, index, kind, field) ==
    [section |-> section, index |-> index, kind |-> kind, field |-> field]

\* mutant: the field loop stops at the first missing field
MissingFields_first(section, i, item, fields) ==
    LET missing == SelectSeq(SetToSeq(fields), LAMBDA f : f \notin DOMAIN item)
    IN  IF missing = <<>> THEN <<>>
        ELSE <<Err(section, i, "missing", missing[1])>>

\* the inner loop "for field in FIELDS: if field not in item: errors.append"
MissingFields(section, i, item, fields) ==
    LET missing == SelectSeq(SetToSeq(fields), LAMBDA f : f \notin DOMAIN item)
    IN  [k \in 1..Len(missing) |-> Err(section, i, "missing", missing[k])]

RECURSIVE NewsLoop(_, _, _)
NewsLoop(items, section_name, k) ==
    IF k > Len(items) THEN <<>>
    ELSE MissingFields(section_name, k - 1, items[k], NEWS_ITEM_REQUIRED_FIELDS)
         \o NewsLoop(items, section_name, k + 1)

validate_news_items(items, section_name) == NewsLoop(items, section_name, 1)

ReasonErrors(i, item) ==
    IF "reason" \in DOMAIN item /\ item["reason"] \notin VALID_EXCLUSION_REASONS
    THEN <<Err("excluded", i, "invalid_reason", item["reason"])>>
    ELSE <<>>

\* mutant: the bounds are exclusive
ScoreErrors_exclusive(i, item) ==
    IF "score" \in DOMAIN item
       /\ (~IsNumber(item["score"]) \/ item["score"].v10 <= 10
           \/ item["score"].v10 >= 100)
    THEN <<Err("excluded", i, "score_range", "score")>>
    ELSE <<>>

ScoreErrors(i, item) ==
    IF "score" \in DOMAIN item
       /\ (~IsNumber(item["score"]) \/ item["score"].v10 < 10
           \/ item["score"].v10 > 100)
    THEN <<Err("excluded", i, "score_range", "score")>>
    ELSE <<>>

RECURSIVE ExcludedLoop(_, _)
ExcludedLoop(items, k) ==
    IF k > Len(items) THEN <<>>
    ELSE MissingFields("excluded", k - 1, items[k], EXCLUDED_ITEM_REQUIRED_FIELDS)
         \o ReasonErrors(k - 1, items[k])
         \o ScoreErrors(k - 1, items[k])
         \o ExcludedLoop(items, k + 1)

validate_excluded_items(items) == ExcludedLoop(items, 1)

MetaErrors(metadata) ==
    LET missing == SelectSeq(required_meta, LAMBDA f : f \notin DOMAIN metadata)
    IN  [k \in 1..Len(missing) |-> Err("metadata", -1, "missing", missing[k])]

validate_daily_digest(headlines, research, industry, watching, excluded, metadata) ==
    (IF Len(headlines) = 0
     THEN <<Err("headlines", -1, "at_least_one", "")>> ELSE <<>>)
    \o validate_news_items(headlines, "headlines")
    \o validate_news_items(research, "research")
    \o validate_news_items(industry, "industry")
    \o validate_news_items(watching, "watching")
    \o validate_excluded_items(excluded)
    \o MetaErrors(metadata)

Validate(sub) ==
    validate_daily_digest(sub.headlines, sub.research, sub.industry,
                          sub.watching, sub.excluded, sub.metadata)

(***************************************************************************)
(* Inputs of the validator                                                 *)
(***************************************************************************)
Drop(item, S) == [f \in (DOMAIN item) \ S |-> item[f]]

NewsItem(url, title, category) ==
    [title |-> title, summary |-> "sum", url |-> url, source |-> "src",
     category |-> category, confidence |-> FloatVal(5)]

ExcludedItem(url, category, reason, score) ==
    [url |-> url, title |-> "tx", category |-> category, reason |-> reason,
     score |-> score]

FullMeta == [articles_analyzed |-> 3, web_searches |-> 1, research_doc |-> "r.md"]

DropSets(fields) == {S \in SUBSET fields : Cardinality(S) <= MaxMissing}

ValNewsItems ==
    {Drop(NewsItem("u1", "t1", "c1"), S) : S \in DropSets(NEWS_ITEM_REQUIRED_FIELDS)}
    \cup {[NewsItem("u1", "t1", "c1") EXCEPT !.confidence = IntVal(7)]}

ValScores == {IntVal(0), IntVal(1), IntVal(10), IntVal(11), FloatVal(55), StrVal}

ValExcludedItems ==
    {ExcludedItem("u2", "c1", "off_topic", sc) : sc \in ValScores}
    \cup {ExcludedItem("u2", "c1", "spam", IntVal(1))}
    \cup {Drop(ExcludedItem("u2", "c1", "spam", IntVal(0)), S) :
            S \in DropSets(EXCLUDED_ITEM_REQUIRED_FIELDS)}

Submission(h, r, i, w, e, m) ==
    [headlines |-> h, research |-> r, industry |-> i, watching |-> w,
     excluded |-> e, metadata |-> m]

OneGood == <<NewsItem("u1", "t1", "c1")>>

ListNames == {"headlines", "research", "industry", "watching", "excluded"}

ValItemsOf(sec) == IF sec = "excluded" THEN ValExcludedItems ELSE ValNewsItems

\* a submission whose list sec is q and whose other parts are in order
RichInput(sec, q) ==
    [Submission(OneGood, <<>>, <<>>, <<>>, <<>>, FullMeta) EXCEPT ![sec] = q]

\* the inputs: one list varied over every drawn item, or all parts varied a little
IsValInput(sub) ==
    \/ \E sec \in ListNames : \E n \in 0..MaxItems :
          \E q \in [1..n -> ValItemsOf(sec)] : sub = RichInput(sec, q)
    \/ \E h \in {<<>>, OneGood, <<Drop(NewsItem("u1", "t1", "c1"), {"url"})>>},
          r \in {<<>>, <<NewsItem("u2", "t1", "c1"),
                         Drop(NewsItem("u2", "t1", "c1"), {"title", "source"})>>},
          w \in {<<>>, <<NewsItem("u2", "t2", "c2")>>},
          e \in {<<>>, <<ExcludedItem("u2", "c1", "duplicate", IntVal(10))>>,
                 <<ExcludedItem("u2", "c1", "duplicate", IntVal(11))>>},
          M \in SUBSET {"articles_analyzed", "web_searches", "research_doc"} :
          sub = Submission(h, r, <<>>, w, e, Drop(FullMeta, M))

(***************************************************************************)
(* The database as a cursor sees it.  A cursor carries the transaction's   *)
(* working copy of the tables, the number of statements that still succeed *)
(* before one raises (left, -1: none raises) and whether one has raised.   *)
(***************************************************************************)
Cursor(cats, digs, arts, cseq, dseq, left) ==
    [categories |-> cats, digests |-> digs, articles |-> arts,
     catSeq |-> cseq, digestSeq |-> dseq, left |-> left, raised |-> FALSE]

CanExec(cur) == ~cur.raised /\ cur.left # 0
Raise(cur) == [cur EXCEPT !.raised = TRUE]
Executed(cur) == [cur EXCEPT !.left = IF @ > 0 THEN @ - 1 ELSE @]

(***************************************************************************)
(* mcp_tools/repositories/category.py                                      *)
(***************************************************************************)
\* mutant: the SELECT matches the name alone, in every mission
get_or_create_category_anymission(cur, mission_id, category_name) ==
    IF ~CanExec(cur) THEN [cur |-> Raise(cur), id |-> NoId]
    ELSE With(Executed(cur), LAMBDA c1 :
      LET rows == {c \in c1.categories : c.name = category_name}
      IN  IF rows # {}
          THEN [cur |-> c1, id |-> (CHOOSE c \in rows : TRUE).id]
          ELSE IF ~CanExec(c1) THEN [cur |-> Raise(c1), id |-> NoId]
          ELSE LET id == c1.catSeq + 1
                   row == [id |-> id, mission_id |-> mission_id,
                           name |-> category_name]
               IN  [cur |-> [Executed(c1) EXCEPT !.categories = @ \cup {row},
                                                 !.catSeq = id],
                    id |-> id])

get_or_create_category(cur, mission_id, category_name) ==
    IF ~CanExec(cur) THEN [cur |-> Raise(cur), id |-> NoId]
    ELSE With(Executed(cur), LAMBDA c1 :
      LET rows == {c \in c1.categories :
                     c.mission_id = mission_id /\ c.name = category_name}
      IN  IF rows # {}
          THEN [cur |-> c1, id |-> (CHOOSE c \in rows : TRUE).id]
          ELSE IF ~CanExec(c1) THEN [cur |-> Raise(c1), id |-> NoId]
          ELSE LET id == c1.catSeq + 1
                   row == [id |-> id, mission_id |-> mission_id,
                           name |-> category_name]
               IN  [cur |-> [Executed(c1) EXCEPT !.categories = @ \cup {row},
                                                 !.catSeq = id],
                    id |-> id])

(***************************************************************************)
(* mcp_tools/repositories/article.py                                       *)
(***************************************************************************)
Get(item, field, default) == IF field \in DOMAIN item THEN item[field] ELSE default

\* mutant: a plain INSERT, without ON CONFLICT (url) DO NOTHING
InsertArticle_noconflict(cur, row) ==
    IF ~CanExec(cur) THEN Raise(cur)
    ELSE [Executed(cur) EXCEPT !.articles = @ \cup {row}]

\* INSERT INTO articles ... ON CONFLICT (url) DO NOTHING
InsertArticle(cur, row) ==
    IF ~CanExec(cur) THEN Raise(cur)
    ELSE IF \E a \in cur.articles : a.url = row.url THEN Executed(cur)
    ELSE [Executed(cur) EXCEPT !.articles = @ \cup {row}]

insert_selected_article(cur, mission_id, category_id, digest_id, item) ==
    InsertArticle(cur,
        [mission_id |-> mission_id, category_id |-> category_id,
         daily_digest_id |-> digest_id, title |-> item["title"],
         url |-> item["url"], source |-> item["source"],
         description |-> Get(item, "summary", ""), status |-> "selected",
         exclusion_reason |-> NULL,
         relevance_score |-> Get(item, "relevance_score", NoneVal)])

insert_excluded_article(cur, mission_id, category_id, item) ==
    InsertArticle(cur,
        [mission_id |-> mission_id, category_id |-> category_id,
         daily_digest_id |-> NoId, title |-> item["title"],
         url |-> item["url"], source |-> Get(item, "source", "unknown"),
         description |-> NULL, status |-> "excluded",
         exclusion_reason |-> item["reason"],
         relevance_score |-> item["score"]])

(***************************************************************************)
(* mcp_tools/repositories/digest.py                                        *)
(***************************************************************************)
\* mutant: a plain INSERT ... RETURNING id, without the ON CONFLICT clause
insert_daily_digest_plain(cur, mission_id, digest_date, content) ==
    IF ~CanExec(cur) THEN [cur |-> Raise(cur), id |-> NoId]
    ELSE LET id == cur.digestSeq + 1
         IN  [cur |-> [Executed(cur) EXCEPT !.digests = @ \cup
                         {[id |-> id, mission_id |-> mission_id,
                           date |-> digest_date, content |-> content]},
                       !.digestSeq = id],
              id |-> id]

\* INSERT ... ON CONFLICT (mission_id, date) DO UPDATE SET content RETURNING id
insert_daily_digest(cur, mission_id, digest_date, content) ==
    IF ~CanExec(cur) THEN [cur |-> Raise(cur), id |-> NoId]
    ELSE With(Executed(cur), LAMBDA c1 :
      LET rows == {d \in c1.digests :
                     d.mission_id = mission_id /\ d.date = digest_date}
      IN  IF rows # {}
          THEN LET old == CHOOSE d \in rows : TRUE
               IN  [cur |-> [c1 EXCEPT !.digests =
                               (@ \ {old}) \cup {[old EXCEPT !.content = content]}],
                    id |-> old.id]
          ELSE LET id == c1.digestSeq + 1
               IN  [cur |-> [c1 EXCEPT !.digests = @ \cup
                               {[id |-> id, mission_id |-> mission_id,
                                 date |-> digest_date, content |-> content]},
                             !.digestSeq = id],
                    id |-> id])

RECURSIVE SelectedLoop(_, _, _, _, _)
SelectedLoop(cur, mission_id, digest_id, selected_items, k) ==
    IF cur.raised \/ k > Len(selected_items) THEN [cur |-> cur, count |-> k - 1]
    ELSE LET item == selected_items[k][1] IN
         With(get_or_create_category(cur, mission_id, item["category"]), LAMBDA cat :
         With(IF cat.cur.raised THEN cat.cur
              ELSE insert_selected_article(cat.cur, mission_id, cat.id,
                                           digest_id, item), LAMBDA c2 :
         SelectedLoop(c2, mission_id, digest_id, selected_items, k + 1)))

RECURSIVE ExcludedInsertLoop(_, _, _, _)
ExcludedInsertLoop(cur, mission_id, excluded_items, k) ==
    IF cur.raised \/ k > Len(excluded_items) THEN [cur |-> cur, count |-> k - 1]
    ELSE LET item == excluded_items[k] IN
         With(get_or_create_category(cur, mission_id, item["category"]), LAMBDA cat :
         With(IF cat.cur.raised THEN cat.cur
              ELSE insert_excluded_article(cat.cur, mission_id, cat.id, item),
              LAMBDA c2 :
         ExcludedInsertLoop(c2, mission_id, excluded_items, k + 1)))

batch_insert_articles(cur, mission_id, digest_id, selected_items, excluded_items) ==
    With(SelectedLoop(cur, mission_id, digest_id, selected_items, 1), LAMBDA sel :
    With(ExcludedInsertLoop(sel.cur, mission_id, excluded_items, 1), LAMBDA exc :
      [cur |-> exc.cur, selected_count |-> sel.count,
       excluded_count |-> exc.count]))

(***************************************************************************)
(* mcp_tools/utils.py                                                      *)
(***************************************************************************)
compute_exclusion_breakdown(excluded) ==
    [r \in VALID_EXCLUSION_REASONS |->
        Cardinality({k \in 1..Len(excluded) : Get(excluded[k], "reason", NULL) = r})]

\* mutant: the key digest_id is written whatever its value
WithDigestId_always(digest, digest_id) == digest @@ ("digest_id" :> digest_id)

\* if digest_id: digest["digest_id"] = digest_id
WithDigestId(digest, digest_id) ==
    IF digest_id # NoId THEN digest @@ ("digest_id" :> digest_id) ELSE digest

build_daily_digest_structure(execution_id, headlines, research, industry, watching, excluded, metadata, digest_id, date) ==
    LET digest ==
          [digest |-> [date |-> date, headline_count |-> Len(headlines)],
           headlines |-> headlines, research |-> research,
           industry |-> industry, watching |-> watching, excluded |-> excluded,
           metadata |->
             [execution_id |-> execution_id,
              mission_id |-> Get(metadata, "mission_id", "ai-news"),
              articles_analyzed |-> Get(metadata, "articles_analyzed", 0),
              web_searches |-> Get(metadata, "web_searches", 0),
              research_doc |-> Get(metadata, "research_doc", ""),
              selected_count |-> Len(headlines) + Len(research)
                                 + Len(industry) + Len(watching),
              excluded_count |-> Len(excluded),
              exclusion_breakdown |-> compute_exclusion_breakdown(excluded)]]
    IN  WithDigestId(digest, digest_id)

collect_selected_items(headlines, research, industry, watching) ==
    [k \in 1..Len(headlines) |-> <<headlines[k], "headlines">>]
    \o [k \in 1..Len(research) |-> <<research[k], "research">>]
    \o [k \in 1..Len(industry) |-> <<industry[k], "industry">>]
    \o [k \in 1..Len(watching) |-> <<watching[k], "watching">>]

\* the file is a list: empty while digest.json does not exist
write_digest_to_file(digest, execution_id) == <<digest>>

(***************************************************************************)
(* mcp_tools/repositories/base.py                                          *)
(***************************************************************************)
ConnStates == {"ok", "unset", "refused"}

\* the connection (TRUE when there is one) and the error message
get_db_connection(env) ==
    IF env = "unset" THEN [conn |-> FALSE, error |-> "DATABASE_URL not set"]
    ELSE IF env = "refused" THEN [conn |-> FALSE, error |-> "Connection failed"]
    ELSE [conn |-> TRUE, error |-> NULL]

\* psycopg2.connect is reached unless DATABASE_URL is unset
ConnectAttempts(env) == IF env = "unset" THEN 0 ELSE 1

(***************************************************************************)
(* mcp_tools/services/digest_submitter.py                                  *)
(***************************************************************************)
_count_selected(headlines, research, industry, watching) ==
    Len(headlines) + Len(research) + Len(industry) + Len(watching)

\* mutant: the statements already executed stay (no rollback)
Rollback_none(before, cur) == cur

\* conn.rollback(): the tables as they were; id sequences are not rewound
Rollback(before, cur) ==
    [cur EXCEPT !.categories = before.categories, !.digests = before.digests,
                !.articles = before.articles]

\* cur: the cursor of the new connection; env: what get_db_connection meets
_save_to_database(cur, env, execution_id, mission_id, sub, date) ==
    LET c == get_db_connection(env) IN
    IF ~c.conn
    THEN [cur |-> cur, db_saved |-> FALSE, db_error |-> c.error,
          digest_id |-> NoId, articles_saved |-> 0]
    ELSE
      LET digest_content ==
            build_daily_digest_structure(execution_id, sub.headlines,
                sub.research, sub.industry, sub.watching, sub.excluded,
                sub.metadata, NoId, date)
          selected_items == collect_selected_items(sub.headlines, sub.research,
                                                   sub.industry, sub.watching)
      IN
      With(insert_daily_digest(cur, mission_id, date, digest_content), LAMBDA dig :
      With(IF dig.cur.raised
           THEN [cur |-> dig.cur, selected_count |-> 0, excluded_count |-> 0]
           ELSE batch_insert_articles(dig.cur, mission_id, dig.id,
                                      selected_items, sub.excluded), LAMBDA bat :
      \* conn.commit() is one more statement that may raise
      With(IF bat.cur.raised \/ CanExec(bat.cur) THEN bat.cur
           ELSE Raise(bat.cur), LAMBDA done :
          IF done.raised
          THEN [cur |-> Rollback(cur, done), db_saved |-> FALSE,
                db_error |-> "exception", digest_id |-> NoId,
                articles_saved |-> 0]
          ELSE [cur |-> done, db_saved |-> TRUE, db_error |-> NULL,
                digest_id |-> dig.id,
                articles_saved |-> bat.selected_count + bat.excluded_count])))

_build_response(execution_id, selected_count, excluded_count, db_result) ==
    [status |-> "success", execution_id |-> execution_id,
     digest_id |-> db_result.digest_id, selected_count |-> selected_count,
     excluded_count |-> excluded_count,
     total_archived |-> db_result.articles_saved,
     db_saved |-> db_result.db_saved, db_error |-> db_result.db_error]

ExecutionId == "exec1"

\* mutant: the validation errors are reported after the database step
ValidationFailed_late(errs, cur, oldFile, env) ==
    [response |-> [status |-> "error", errors |-> errs],
     cur |-> cur, file |-> oldFile, connects |-> ConnectAttempts(env)]

\* the early return of submit: nothing was opened, nothing written
ValidationFailed(errs, cur, oldFile, env) ==
    [response |-> [status |-> "error", errors |-> errs],
     cur |-> cur, file |-> oldFile, connects |-> 0]

\* DigestSubmitter.submit as a function of the database, the file and the call
submit(cur, oldFile, env, execution_id, sub, date) ==
    LET errs == Validate(sub) IN
    IF errs # <<>>
    THEN ValidationFailed(errs, cur, oldFile, env)
    ELSE
      LET mission_id == Get(sub.metadata, "mission_id", "ai-news")
          selected_count == _count_selected(sub.headlines, sub.research,
                                            sub.industry, sub.watching)
          excluded_count == Len(sub.excluded)
      IN
      With(_save_to_database(cur, env, execution_id, mission_id, sub, date),
           LAMBDA db_result :
      LET digest == build_daily_digest_structure(execution_id, sub.headlines,
                        sub.research, sub.industry, sub.watching, sub.excluded,
                        sub.metadata, db_result.digest_id, date)
      IN  [response |-> _build_response(execution_id, selected_count,
                                        excluded_count, db_result),
           cur |-> db_result.cur,
           file |-> write_digest_to_file(digest, execution_id),
           connects |-> ConnectAttempts(env)])

(***************************************************************************)
(* Submissions the agent makes                                             *)
(***************************************************************************)
Meta(m) == IF m = "ai-news" THEN FullMeta ELSE FullMeta @@ ("mission_id" :> m)

Missions == {"ai-news", "m2"}

ValidShapes ==
    { Submission(<<NewsItem("u1", "t1", "c1")>>, <<>>, <<>>, <<>>, <<>>, FullMeta),
      Submission(<<NewsItem("u1", "t2", "c2")>>, <<>>, <<>>, <<>>,
                 <<ExcludedItem("u2", "c1", "duplicate", IntVal(3))>>, FullMeta),
      Submission(<<NewsItem("u2", "t1", "c1")>>, <<NewsItem("u2", "t2", "c2")>>,
                 <<>>, <<>>,
                 <<ExcludedItem("u1", "c2", "outdated", IntVal(10))>>, FullMeta) }

InvalidShapes ==
    { Submission(<<>>, <<>>, <<>>, <<>>, <<>>, FullMeta),
      Submission(<<NewsItem("u2", "t2", "c1")>>, <<>>, <<>>, <<>>,
                 <<ExcludedItem("u1", "c1", "spam", IntVal(11))>>, FullMeta) }

Submissions ==
    {[s EXCEPT !.metadata = Meta(m)] : s \in ValidShapes, m \in Missions}
    \cup InvalidShapes

(***************************************************************************)
(* Specification of the artifact archiver                                   *)
(***************************************************************************)
NoInput == Submission(<<>>, <<>>, <<>>, <<>>, <<>>, FullMeta)
NoResponse == [status |-> "none"]
NoResult == [response |-> "", timeline |-> <<>>, input_tokens |-> 0,
             output_tokens |-> 0, cost_usd |-> 0, success |-> FALSE,
             error |-> NULL, raised |-> FALSE]

NoPath == <<>>     \* no path: the symlink or the handle does not exist
Handle(op, query, record, matched, path, standalone) ==
    [op |-> op, query |-> query, record |-> record, matched |-> matched,
     path |-> path, standalone |-> standalone]
NoHandle == Handle("none", <<>>, <<>>, NoPath, NoPath, <<>>)

InitRenderVars == renderIn = <<>> /\ summaryOut = <<>>
InitLogVars ==
    /\ logsDir = <<>> /\ workflows = <<>> /\ latest = NoPath
    /\ handle = NoHandle
    /\ calls = 0
InitHandleVars == runs = <<>> /\ articlesFile = <<>>
\* the schema matters to concurrent transactions only: see InitConcurrent
InitSchema == categoryNameUnique = FALSE
InitOrch == InitRenderVars /\ InitLogVars /\ InitHandleVars /\ InitSchema

InitArchive ==
    /\ categories = {} /\ digests = {} /\ articles = {}
    /\ catSeq = 0 /\ digestSeq = 0
    /\ today = 1
    /\ file = <<>>
    /\ connects = 0
    /\ response = NoResponse
    /\ hist = <<>>
    /\ stream = <<>>
    /\ claudeResult = NoResult

InitRest == InitArchive /\ InitOrch

Init ==
    /\ input = NoInput
    /\ errors = <<>>
    /\ pc = "idle"
    /\ InitRest

\* one call of the submit_digest tool by the agent
Submit(sub, env, left) ==
    /\ Len(hist) < MaxSubmits
    /\ \E out \in {submit(Cursor(categories, digests, articles, catSeq,
                                   digestSeq, left),
                            file, env, ExecutionId, sub, today)} :
           /\ input' = sub
           /\ errors' = Validate(sub)
           /\ response' = out.response
           /\ categories' = out.cur.categories
           /\ digests' = out.cur.digests
           /\ articles' = out.cur.articles
           /\ catSeq' = out.cur.catSeq
           /\ digestSeq' = out.cur.digestSeq
           /\ file' = out.file
           /\ connects' = connects + out.connects
           /\ hist' = Append(hist, out.response.status)
    /\ pc' = "submitted"
    /\ UNCHANGED <<today, stream, claudeResult, orchVars>>

\* midnight passes: date.today() changes
NextDay ==
    /\ today < MaxDay
    /\ today' = today + 1
    /\ UNCHANGED <<input, errors, pc, categories, digests, articles, catSeq,
                   digestSeq, file, connects, response, hist, stream,
                   claudeResult, orchVars>>

\* what the call meets: no connection, or a connection on which the statement
\* after the first `left` ones raises (-1: none does)
Outcomes ==
    {<<env, -1>> : env \in ConnStates \ {"ok"}}
    \cup {<<"ok", left>> : left \in -1..MaxFailPoint}

SubmitAny == \E sub \in Submissions, o \in Outcomes : Submit(sub, o[1], o[2])

Next == SubmitAny \/ NextDay

Spec == Init /\ [][Next]_vars

(***************************************************************************)
(* Specification of the validator alone                                    *)
(***************************************************************************)
InitValidate ==
    /\ IsValInput(input)
    /\ errors = <<>>
    /\ pc = "start"
    /\ InitRest

ValidateCall ==
    /\ pc = "start"
    /\ errors' = Validate(input)
    /\ pc' = "validated"
    /\ UNCHANGED <<input, submitVars, streamVars, orchVars>>

NextValidate == ValidateCall

SpecValidate == InitValidate /\ [][NextValidate]_vars

(***************************************************************************)
(* services/claude_service.py: reduction of the agent's output             *)
(***************************************************************************)
\* A line of stdout: blank, not JSON ("garbage"), a JSON value that is not an
\* object ("scalar"), or a JSON object ("json") held in data.
Line(kind, data) == [kind |-> kind, data |-> data]

TextBlock(text) == [type |-> "text", text |-> text]
ToolBlock(name) == [type |-> "tool_use", name |-> name]

\* the text parts of an assistant message, as _parse_stream_event joins them
RECURSIVE TextParts(_, _)
TextParts(contents, k) ==
    IF k > Len(contents) THEN <<>>
    ELSE (IF Get(contents[k], "type", "") = "text"
          THEN <<Get(contents[k], "text", "")>>
          ELSE IF Get(contents[k], "type", "") = "tool_use"
          THEN <<"[Using tool: " \o Get(contents[k], "name", "unknown") \o "]">>
          ELSE <<>>)
         \o TextParts(contents, k + 1)

StreamEvent(event_type, content, raw_data) ==
    [event_type |-> event_type, content |-> content, raw_data |-> raw_data]

NoEvent == [event_type |-> "<None>"]

\* the event of a line; NoEvent when json.loads raises JSONDecodeError.  The
\* summary text is kept by its parts, the relative timestamp is left out.
_parse_stream_event(line) ==
    IF line.kind = "garbage" THEN NoEvent
    ELSE
      LET data == line.data
          event_type == Get(data, "type", "unknown")
      IN  IF event_type = "init"
          THEN StreamEvent(event_type,
                           <<"Session started", Get(data, "session_id", "")>>, data)
          ELSE IF event_type = "assistant"
          THEN StreamEvent(event_type,
                   TextParts(Get(Get(data, "message", <<>>), "content", <<>>), 1),
                   data)
          ELSE IF event_type = "tool_use"
          THEN StreamEvent(event_type,
                           <<"Calling", Get(data, "name", "unknown")>>,
                           [name |-> Get(data, "name", "unknown")])
          ELSE IF event_type = "tool_result"
          THEN StreamEvent(event_type,
                   <<IF Get(data, "output", "") # "" THEN data["output"]
                     ELSE "(empty result)">>, data)
          ELSE IF event_type = "result"
          THEN StreamEvent(event_type,
                           <<"Completed", Get(data, "total_cost_usd", 0)>>, data)
          ELSE IF event_type = "error"
          THEN StreamEvent(event_type, <<"Error">>, data)
          ELSE IF event_type = "system"
          THEN StreamEvent(event_type,
                           <<Get(data, "message", "System message")>>, data)
          ELSE StreamEvent(event_type, <<>>, data)

\* mutant: the cache token counts are not added
UsageTokens_nocache(usage) ==
    [input_tokens |-> Get(usage, "input_tokens", 0),
     output_tokens |-> Get(usage, "output_tokens", 0)]

\* the token totals read from a non-empty usage block
UsageTokens(usage) ==
    [input_tokens |-> Get(usage, "input_tokens", 0)
                      + Get(usage, "cache_creation_input_tokens", 0)
                      + Get(usage, "cache_read_input_tokens", 0),
     output_tokens |-> Get(usage, "output_tokens", 0)]

\* the last text block of an assistant message, or old when it has none
RECURSIVE LastText(_, _, _)
LastText(contents, k, old) ==
    IF k > Len(contents) THEN old
    ELSE LastText(contents, k + 1,
                  IF Get(contents[k], "type", "") = "text"
                  THEN Get(contents[k], "text", "") ELSE old)

\* the body of the loop over the lines, on the accumulated result acc
ReduceEvent(acc, event) ==
    LET acc1 == [acc EXCEPT !.timeline = Append(@, event)] IN
    IF event.event_type = "result"
    THEN LET result_data == event.raw_data
             usage == Get(result_data, "usage", <<>>)
             tokens == IF DOMAIN usage # {} THEN UsageTokens(usage)
                       ELSE [input_tokens |-> acc.input_tokens,
                             output_tokens |-> acc.output_tokens]
         IN  [acc1 EXCEPT !.response = Get(result_data, "result", ""),
                          !.cost_usd = Get(result_data, "total_cost_usd", 0),
                          !.input_tokens = tokens.input_tokens,
                          !.output_tokens = tokens.output_tokens]
    ELSE IF event.event_type = "assistant" /\ acc.response = ""
    THEN [acc1 EXCEPT !.response =
            LastText(Get(Get(event.raw_data, "message", <<>>), "content", <<>>),
                     1, acc.response)]
    ELSE acc1

RECURSIVE ParseLoop(_, _, _)
ParseLoop(lines, k, acc) ==
    IF acc.raised \/ k > Len(lines) THEN acc
    ELSE IF lines[k].kind = "blank" THEN ParseLoop(lines, k + 1, acc)
    \* data.get on a JSON value that is not an object: AttributeError
    ELSE IF lines[k].kind = "scalar" THEN [acc EXCEPT !.raised = TRUE]
    ELSE LET event == _parse_stream_event(lines[k])
         IN  ParseLoop(lines, k + 1,
                       IF event = NoEvent THEN acc ELSE ReduceEvent(acc, event))

parse_stream_output(output) ==
    LET acc == ParseLoop(output, 1,
                 [response |-> "", timeline |-> <<>>, input_tokens |-> 0,
                  output_tokens |-> 0, cost_usd |-> 0, raised |-> FALSE])
    IN  [response |-> acc.response, timeline |-> acc.timeline,
         input_tokens |-> acc.input_tokens, output_tokens |-> acc.output_tokens,
         cost_usd |-> acc.cost_usd, success |-> ~acc.raised, error |-> NULL,
         raised |-> acc.raised]

(***************************************************************************)
(* Specification of the stream reducer alone                               *)
(***************************************************************************)
Usage(i, o, c1, c2) ==
    [input_tokens |-> i, output_tokens |-> o,
     cache_creation_input_tokens |-> c1, cache_read_input_tokens |-> c2]

Assistant(blocks) == [type |-> "assistant", message |-> [content |-> blocks]]

StreamLines ==
    { Line("blank", [text |-> ""]),
      Line("garbage", [text |-> "not json"]),
      Line("scalar", [text |-> "42"]),
      Line("json", [type |-> "init", session_id |-> "s1"]),
      Line("json", Assistant(<<TextBlock("a1")>>)),
      Line("json", Assistant(<<TextBlock("a2"), ToolBlock("Read")>>)),
      Line("json", Assistant(<<TextBlock("a3"), TextBlock("a4")>>)),
      Line("json", Assistant(<<ToolBlock("WebSearch")>>)),
      Line("json", [type |-> "tool_result", output |-> "out"]),
      Line("json", [type |-> "error"]),
      Line("json", [type |-> "result", result |-> "r1", total_cost_usd |-> 5,
                    usage |-> Usage(10, 20, 1, 2)]),
      Line("json", [type |-> "result", result |-> "r2", total_cost_usd |-> 7,
                    usage |-> Usage(0, 4, 0, 3)]),
      Line("json", [type |-> "result", result |-> "", total_cost_usd |-> 9,
                    usage |-> [input_tokens |-> 6, output_tokens |-> 8]]),
      Line("json", [type |-> "result", subtype |-> "error_max_turns"]) }

InitStream ==
    /\ \E n \in 0..MaxLines : stream \in [1..n -> StreamLines]
    /\ claudeResult = NoResult
    /\ input = NoInput
    /\ errors = <<>>
    /\ pc = "exited"
    /\ categories = {} /\ digests = {} /\ articles = {}
    /\ catSeq = 0 /\ digestSeq = 0
    /\ today = 1
    /\ file = <<>>
    /\ connects = 0
    /\ response = NoResponse
    /\ hist = <<>>
    /\ InitOrch

\* the subprocess exited with code 0: its stdout is reduced
ParseOutput ==
    /\ pc = "exited"
    /\ claudeResult' = parse_stream_output(stream)
    /\ pc' = "parsed"
    /\ UNCHANGED <<input, errors, submitVars, stream, orchVars>>

NextStream == ParseOutput

SpecStream == InitStream /\ [][NextStream]_vars

(***************************************************************************)
(* Properties of the validator                                             *)
(***************************************************************************)
Range(q) == {q[k] : k \in DOMAIN q}

SectionNames == {"headlines", "research", "industry", "watching"}

ScoreInBound(x) == IsNumber(x) /\ x.v10 >= 10 /\ x.v10 <= 100

\* the rules of section 4.3, stated on the submission
RulesHold(sub) ==
    /\ Len(sub.headlines) >= 1
    /\ \A sec \in SectionNames : \A k \in 1..Len(sub[sec]) :
          NEWS_ITEM_REQUIRED_FIELDS \subseteq DOMAIN sub[sec][k]
    /\ \A k \in 1..Len(sub.excluded) :
          /\ EXCLUDED_ITEM_REQUIRED_FIELDS \subseteq DOMAIN sub.excluded[k]
          /\ sub.excluded[k]["reason"] \in VALID_EXCLUSION_REASONS
          /\ ScoreInBound(sub.excluded[k]["score"])
    /\ {"articles_analyzed", "web_searches", "research_doc"}
          \subseteq DOMAIN sub.metadata

\* C1: validate_daily_digest returns the empty list exactly when headlines is
\* non-empty, every item of every list has its required fields, every excluded
\* reason is in the enumeration, every excluded score lies in 1..10 and the
\* metadata has its three fields; otherwise the list is non-empty.
C1_ValidateExact ==
    pc = "validated" => ((errors = <<>>) <=> RulesHold(input))

\* an accepted submission whose excluded items carry the scores 1 and 10
C1_Witness ==
    /\ pc = "validated"
    /\ errors = <<>>
    /\ \E j, k \in 1..Len(input.excluded) :
          /\ input.excluded[j]["score"] = IntVal(1)
          /\ input.excluded[k]["score"] = IntVal(10)

RequiredOf(sec) ==
    IF sec = "excluded" THEN EXCLUDED_ITEM_REQUIRED_FIELDS
    ELSE NEWS_ITEM_REQUIRED_FIELDS

MissingErrorsAt(errs, sec, i) ==
    SelectSeq(errs, LAMBDA e : e.section = sec /\ e.index = i /\ e.kind = "missing")

\* C2: for every list, every index i and every required field f the item at i
\* lacks, the errors contain one naming the list, i and f; an item lacking k
\* fields yields exactly k such errors, a complete item none.
C2_MissingFieldErrors ==
    pc = "validated" =>
      \A sec \in SectionNames \cup {"excluded"} :
        /\ \A k \in 1..Len(input[sec]) :
             /\ \A f \in RequiredOf(sec) :
                   (f \notin DOMAIN input[sec][k])
                     <=> (Err(sec, k - 1, "missing", f) \in Range(errors))
             /\ Len(MissingErrorsAt(errors, sec, k - 1))
                  = Cardinality(RequiredOf(sec) \ DOMAIN input[sec][k])
        /\ \A e \in Range(errors) :
             (e.section = sec /\ e.kind = "missing")
               => e.index \in 0..(Len(input[sec]) - 1)

\* a list whose second item lacks two fields while its first item is complete
C2_Witness ==
    /\ pc = "validated"
    /\ \E sec \in SectionNames \cup {"excluded"} :
          /\ Len(input[sec]) = 2
          /\ RequiredOf(sec) \subseteq DOMAIN input[sec][1]
          /\ Cardinality(RequiredOf(sec) \ DOMAIN input[sec][2]) = 2
          /\ Len(MissingErrorsAt(errors, sec, 1)) = 2
          /\ MissingErrorsAt(errors, sec, 0) = <<>>

(***************************************************************************)
(* Properties of the artifact archiver                                     *)
(***************************************************************************)
SubmitStep == Len(hist') = Len(hist) + 1

MissionOf(sub) == Get(sub.metadata, "mission_id", "ai-news")

ParentsOf(digs, m, d) == {p \in digs : p.mission_id = m /\ p.date = d}

AllItems(sub) ==
    Range(sub.headlines) \cup Range(sub.research) \cup Range(sub.industry)
    \cup Range(sub.watching) \cup Range(sub.excluded)

\* C3: a submit call whose validation returns errors returns status error with
\* the error list, opens no database connection, writes no row and leaves the
\* artifact file as it was; a valid submission, also a later one, is processed
\* (status success, file written).
C3_InvalidPersistsNothing ==
    [][SubmitStep =>
         /\ errors' # <<>> =>
              /\ response'.status = "error"
              /\ response'.errors = errors'
              /\ connects' = connects
              /\ UNCHANGED <<categories, digests, articles, file>>
         /\ errors' = <<>> =>
              /\ response'.status = "success"
              /\ file' # <<>>
              /\ file'[1].headlines = input'.headlines]_vars

\* a rejected submission followed by a valid resubmission that was archived
C3_Witness ==
    /\ hist = <<"error", "success">>
    /\ response.db_saved
    /\ file # <<>>

UniqueUrl(arts) == \A a, b \in arts : a.url = b.url => a = b

\* C4: the item store holds at most one row per URL, and a stored row is never
\* changed or removed by a later insert of the same URL (first write wins).
C4_FirstWriteWins ==
    [][UniqueUrl(articles') /\ (\A a \in articles : a \in articles')]_vars

\* an archived submission one of whose items has the URL of a row stored with
\* another title or in the other group
C4_Witness ==
    /\ response.status = "success"
    /\ response.db_saved
    /\ \E it \in AllItems(input) : \E a \in articles :
          /\ a.url = it["url"]
          /\ a.title # it["title"]
    /\ \E a, b \in articles : a.status = "selected" /\ b.status = "excluded"

\* C5: there is at most one parent record per (subject, date); an archived
\* submission leaves exactly one, whose identity is the one returned and is the
\* identity the pair had before, and whose content is that of this submission.
C5_OneParentPerDate ==
    [][/\ \A p, q \in digests' :
            (p.mission_id = q.mission_id /\ p.date = q.date) => p = q
       /\ (SubmitStep /\ response'.status = "success" /\ response'.db_saved) =>
            LET m == MissionOf(input')
                now == ParentsOf(digests', m, today)
                before == ParentsOf(digests, m, today)
            IN  /\ Cardinality(now) = 1
                /\ \A p \in now :
                     /\ p.id = response'.digest_id
                     /\ p.content.headlines = input'.headlines
                     /\ p.content.research = input'.research
                     /\ p.content.industry = input'.industry
                     /\ p.content.watching = input'.watching
                     /\ p.content.excluded = input'.excluded
                     /\ \A o \in before : o.id = p.id
                /\ Cardinality(digests') =
                     Cardinality(digests) + (IF before = {} THEN 1 ELSE 0)]_vars

\* two archived submissions for one subject and date: the row of the first
\* submission's item is still stored, the parent holds the second's content
C5_Witness ==
    /\ hist = <<"success", "success">>
    /\ response.db_saved
    /\ Cardinality(digests) = 1
    /\ \E p \in digests : \E a \in articles :
          /\ a.daily_digest_id = p.id
          /\ a.status = "selected"
          /\ \A k \in 1..Len(p.content.headlines) :
                p.content.headlines[k]["title"] # a.title
          /\ \A k \in 1..Len(p.content.research) :
                p.content.research[k]["title"] # a.title

CategoryNames == {"c1", "c2", "C1"}

Resolve(cats, cseq, m, n) ==
    get_or_create_category(Cursor(cats, {}, {}, cseq, 0, -1), m, n)

\* C6: from every reachable table, resolving the same subject and name twice
\* in a row returns the same identity and the second call inserts no row; the
\* same name under another subject, and another name (also one differing in
\* case only) under the same subject, resolve to different identities.
C6_CategoryIdempotent ==
    \A m \in Missions, n \in CategoryNames :
      LET r1 == Resolve(categories, catSeq, m, n)
          r2 == Resolve(r1.cur.categories, r1.cur.catSeq, m, n)
      IN  /\ r1.id # NoId
          /\ r2.id = r1.id
          /\ r2.cur.categories = r1.cur.categories
          /\ \E c \in r1.cur.categories :
                c.id = r1.id /\ c.mission_id = m /\ c.name = n
          /\ \A m2 \in Missions \ {m} :
                Resolve(r1.cur.categories, r1.cur.catSeq, m2, n).id # r1.id
          /\ \A n2 \in CategoryNames \ {n} :
                Resolve(r1.cur.categories, r1.cur.catSeq, m, n2).id # r1.id

\* the archiver has resolved one name under both subjects
C6_Witness ==
    /\ response.status = "success"
    /\ response.db_saved
    /\ \E c, e \in categories :
          c.name = e.name /\ c.mission_id # e.mission_id /\ c.id # e.id

\* C7: when the database step of a validated submission does not commit, no
\* category, parent or item row of the call remains, earlier rows are as they
\* were, and the call reports saved=false, the error text, no identity and
\* zero items saved.
C7_ArchiveAtomic ==
    [][(SubmitStep /\ errors' = <<>> /\ ~response'.db_saved) =>
         /\ UNCHANGED <<categories, digests, articles>>
         /\ response'.db_error # NULL
         /\ response'.digest_id = NoId
         /\ response'.total_archived = 0]_vars

\* a transaction that raised after it had created a category, while a parent
\* of an earlier submission is stored
C7_Witness ==
    /\ response.status = "success"
    /\ ~response.db_saved
    /\ response.db_error = "exception"
    /\ catSeq > Cardinality(categories)
    /\ digests # {}

\* C8: a validated submission's file is written whatever the database outcome;
\* it holds the parent identity exactly when the transaction committed, and
\* then the identity of the parent row of (subject, date).
C8_FileAfterDatabase ==
    [][(SubmitStep /\ errors' = <<>>) =>
         /\ file' # <<>>
         /\ file'[1].headlines = input'.headlines
         /\ file'[1].excluded = input'.excluded
         /\ ("digest_id" \in DOMAIN file'[1]) <=> response'.db_saved
         /\ response'.db_saved =>
              \E p \in ParentsOf(digests', MissionOf(input'), today) :
                 /\ file'[1]["digest_id"] = p.id
                 /\ response'.digest_id = p.id]_vars

\* the file of a submission whose transaction raised replaced a file that
\* carried an identity
C8_Witness ==
    /\ hist = <<"success", "success">>
    /\ ~response.db_saved
    /\ response.db_error = "exception"
    /\ digests # {}
    /\ file # <<>>
    /\ "digest_id" \notin DOMAIN file[1]

(***************************************************************************)
(* Properties of the stream reducer                                        *)
(***************************************************************************)
\* the indexes of the lines that are event records
EventIndexes(lines) == {k \in 1..Len(lines) : lines[k].kind = "json"}

IsResultLine(l) == l.kind = "json" /\ Get(l.data, "type", "unknown") = "result"

IsAssistantLine(l) == l.kind = "json" /\ Get(l.data, "type", "unknown") = "assistant"

LastIndex(S) == CHOOSE k \in S : \A j \in S : j <= k

UsageKeys == {"input_tokens", "output_tokens", "cache_creation_input_tokens",
              "cache_read_input_tokens"}

\* C9: when the last event of the stream is a terminal-result event with cost C
\* and a usage block I, O, c1, c2, the result reports cost C, input tokens
\* I + c1 + c2 and output tokens O whatever precedes it; a stream without a
\* terminal-result event reports zero totals.
C9_TerminalTotals ==
    (pc = "parsed" /\ ~claudeResult.raised) =>
      /\ (EventIndexes(stream) # {}
          /\ IsResultLine(stream[LastIndex(EventIndexes(stream))])) =>
            LET d == stream[LastIndex(EventIndexes(stream))].data IN
            ("total_cost_usd" \in DOMAIN d /\ "usage" \in DOMAIN d
             /\ UsageKeys \subseteq DOMAIN d["usage"]) =>
               /\ claudeResult.cost_usd = d["total_cost_usd"]
               /\ claudeResult.input_tokens =
                    d["usage"]["input_tokens"]
                    + d["usage"]["cache_creation_input_tokens"]
                    + d["usage"]["cache_read_input_tokens"]
               /\ claudeResult.output_tokens = d["usage"]["output_tokens"]
      /\ (\A k \in 1..Len(stream) : ~IsResultLine(stream[k])) =>
            /\ claudeResult.cost_usd = 0
            /\ claudeResult.input_tokens = 0
            /\ claudeResult.output_tokens = 0

\* a terminal-result event with non-zero cache counts, after another
\* terminal-result event and an assistant message
C9_Witness ==
    /\ pc = "parsed"
    /\ Len(stream) = 3
    /\ IsResultLine(stream[1])
    /\ IsAssistantLine(stream[2])
    /\ IsResultLine(stream[3])
    /\ claudeResult.input_tokens = 13
    /\ claudeResult.output_tokens = 20
    /\ claudeResult.cost_usd = 5

\* the answer text of an event record, "" when it carries none
ResultText(l) == Get(l.data, "result", "")

AssistantText(l) ==
    LastText(Get(Get(l.data, "message", <<>>), "content", <<>>), 1, "")

ResultsWithText(lines) ==
    {k \in 1..Len(lines) : IsResultLine(lines[k]) /\ ResultText(lines[k]) # ""}

AssistantsWithText(lines) ==
    {k \in 1..Len(lines) : IsAssistantLine(lines[k]) /\ AssistantText(lines[k]) # ""}

\* C10: the final answer is the answer text of the terminal-result event when
\* one with that content was seen, otherwise the text of the last
\* assistant-message event of the stream.
C10_FinalAnswer ==
    (pc = "parsed" /\ ~claudeResult.raised) =>
      IF ResultsWithText(stream) # {}
      THEN claudeResult.response =
             ResultText(stream[LastIndex(ResultsWithText(stream))])
      ELSE IF AssistantsWithText(stream) # {}
      THEN claudeResult.response =
             AssistantText(stream[LastIndex(AssistantsWithText(stream))])
      ELSE claudeResult.response = ""


(***************************************************************************)
(* formatters/markdown_formatter.py                                        *)
(* A text is a sequence of tokens and a document a sequence of lines; the  *)
(* blank lines and the constant table headers are left out. An optional    *)
(* argument (dict | None) is a sequence: <<>> for None, <<v>> for v.       *)
(***************************************************************************)
Str(n) == ToString(n)
IdStr(id) == IF id = NoId THEN "None" ELSE Str(id)
Mark(ok) == IF ok THEN "[+]" ELSE "[x]"
EmptyDict == [k \in {} |-> 0]

_format_duration(seconds) ==
    LET mins == seconds \div 60
        secs == seconds % 60
    IN  IF mins > 0 THEN <<Str(mins), "m ", Str(secs), "s">>
        ELSE <<Str(secs), "s">>

\* cost_usd is held in cents
_format_cost(cost_usd) ==
    IF cost_usd > 0
    THEN <<"$", Str(cost_usd \div 100), ".", Str((cost_usd % 100) \div 10),
           Str(cost_usd % 10)>>
    ELSE <<"N/A">>

DiscordSendRow(status) == <<"| Discord send | ", status, " |">>

_build_pipeline_status(log, workflow, digest) ==
    LET collect_status == Mark(log.metrics.articles_received > 0)
        claude_status == Mark(log.success)
        discord_status == Mark(Len(workflow) > 0 /\ workflow[1].discord_sent)
        meta == IF Len(digest) > 0 THEN Get(digest[1], "metadata", EmptyDict)
                ELSE EmptyDict
        web_searches == Get(meta, "web_searches", 0)
        deep_dives == Get(meta, "deep_dives", 0)
    IN  << <<"| n8n collect | ", collect_status, " ",
             Str(log.metrics.articles_received), " articles |">>,
           <<"| Claude analyze | ", claude_status, " ", Str(web_searches),
             " searches, ", Str(deep_dives), " deep-dives |">>,
           DiscordSendRow(discord_status) >>

_build_digest_stats(digest) ==
    IF Len(digest) = 0
    THEN [headlines |-> 0, research |-> 0, industry |-> 0, watching |-> 0,
          total |-> 0]
    ELSE LET headlines == Len(Get(digest[1], "headlines", <<>>))
             research == Len(Get(digest[1], "research", <<>>))
             industry == Len(Get(digest[1], "industry", <<>>))
             watching == Len(Get(digest[1], "watching", <<>>))
         IN  [headlines |-> headlines, research |-> research,
              industry |-> industry, watching |-> watching,
              total |-> headlines + research + industry + watching]

Min(a, b) == IF a < b THEN a ELSE b

_build_top_headlines(digest) ==
    IF Len(digest) = 0 \/ Len(Get(digest[1], "headlines", <<>>)) = 0
    THEN << <<"*No headlines*">> >>
    ELSE LET hs == digest[1].headlines
         IN  [i \in 1..Min(3, Len(hs)) |->
                 <<Str(i), ". ">> \o Get(hs[i], "title", <<"N/A">>)]

StorageRow(target, status, details) ==
    <<target, status, " | ">> \o details \o <<" |">>

DiscordDetails(workflow_log) ==
    IF workflow_log.discord_message_id # NULL
    THEN <<"msg=", workflow_log.discord_message_id>> ELSE <<"Sent">>

_build_storage_status(workflow, digest) ==
    LET db == IF Len(workflow) > 0 /\ workflow[1].db_saved
              THEN StorageRow("| Database | ", "[+]",
                       <<"digest_id=", IdStr(workflow[1].digest_id), ", ",
                         Str(workflow[1].articles_saved), " articles">>)
              ELSE IF Len(digest) > 0 /\ Get(digest[1], "digest_id", NoId) # NoId
              THEN StorageRow("| Database | ", "[+]",
                       <<"digest_id=", IdStr(digest[1].digest_id)>>)
              ELSE StorageRow("| Database | ", "[x]", <<"Not saved">>)
        discord == IF Len(workflow) > 0 /\ workflow[1].discord_sent
                   THEN StorageRow("| Discord | ", "[+]",
                                   DiscordDetails(workflow[1]))
                   ELSE StorageRow("| Discord | ", "[x]", <<"Not sent">>)
    IN  <<db, discord>>

ErrorSection(log) ==
    IF log.error # NULL /\ log.error # ""
    THEN << <<"## Error">>, <<log.error>> >> ELSE <<>>

format_execution_summary(log, digest, workflow) ==
    LET status == IF log.success THEN "SUCCESS" ELSE "FAILED"
        status_emoji == IF log.success THEN "+" ELSE "x"
        duration_str == _format_duration(log.metrics.duration_seconds)
        cost_str == _format_cost(log.metrics.total_cost_usd)
        digest_stats == _build_digest_stats(digest)
    IN  << <<"# Execution ", log.execution_id>>,
           <<"**Mission:** ", log.mission>>,
           <<"**Status:** [", status_emoji, "] ", status>>,
           <<"**Date:** ", Str(log.timestamp)>>,
           <<"**Duration:** ">> \o duration_str \o <<" | **Cost:** ">>
               \o cost_str,
           <<"## Pipeline">> >>
        \o _build_pipeline_status(log, workflow, digest)
        \o << <<"## Output (", Str(digest_stats.total), " news)">>,
              <<"| Headlines | ", Str(digest_stats.headlines), " |">>,
              <<"| Research | ", Str(digest_stats.research), " |">>,
              <<"| Industry | ", Str(digest_stats.industry), " |">>,
              <<"| Watching | ", Str(digest_stats.watching), " |">>,
              <<"## Top Stories">> >>
        \o _build_top_headlines(digest)
        \o << <<"## Storage">> >>
        \o _build_storage_status(workflow, digest)
        \o << <<"## Files">> >>
        \o ErrorSection(log)


(***************************************************************************)
(* loggers/models.py, loggers/execution_logger.py: the two log records     *)
(***************************************************************************)
create_execution_log(articles_received, duration, success, error, cost_usd, execution_id, mission, now) ==
    [execution_id |-> execution_id, timestamp |-> now, mission |-> mission,
     success |-> success, error |-> error,
     metrics |-> [articles_received |-> articles_received,
                  duration_seconds |-> duration,
                  total_cost_usd |-> cost_usd]]

WorkflowLog(workflow_execution_id, started_at, claude_execution_id, discord_sent, discord_message_id, db_saved, digest_id) ==
    [workflow_execution_id |-> workflow_execution_id,
     started_at |-> started_at, status |-> "success",
     claude_execution_id |-> claude_execution_id,
     discord_sent |-> discord_sent,
     discord_message_id |-> discord_message_id,
     db_saved |-> db_saved, digest_id |-> digest_id,
     articles_saved |-> IF db_saved THEN 1 ELSE 0]

(***************************************************************************)
(* Specification of the summary renderer alone                             *)
(***************************************************************************)
PlainTitle == <<"t1">>
RowTitle == <<"see ">> \o DiscordSendRow("[x]")

RenderDigest(titles, research, digest_id) ==
    build_daily_digest_structure(ExecutionId,
        [k \in 1..Len(titles) |-> NewsItem("u", titles[k], "c1")],
        research, <<>>, <<>>, <<>>, FullMeta, digest_id, 1)

RenderDigests ==
    {<<>>}
    \cup {<<RenderDigest(ts, r, id)>> :
             ts \in {<<>>, <<PlainTitle>>, <<RowTitle, PlainTitle>>},
             r \in {<<>>, <<NewsItem("u2", PlainTitle, "c2")>>},
             id \in {NoId, 1}}

RenderLogs ==
    {create_execution_log(n, d, o[1], o[2], c, "1a", "ai-news", 1) :
        n \in {0, 2}, d \in {5, 65}, c \in {0, 123},
        o \in {<<TRUE, NULL>>, <<FALSE, "boom">>, <<FALSE, NULL>>}}

\* "\\d" stands for a text holding a backslash followed by a letter
MessageIds == {NULL, "77", "\\d"}

RenderWorkflows ==
    {<<>>}
    \cup {<<WorkflowLog("w1", 1, <<"1", "a">>, sent, m, saved, 1)>> :
             sent \in BOOLEAN, saved \in BOOLEAN, m \in {NULL, "77"}}

InitRender ==
    /\ \E log \in RenderLogs, digest \in RenderDigests,
          workflow \in RenderWorkflows :
           renderIn = [log |-> log, digest |-> digest, workflow |-> workflow]
    /\ summaryOut = <<>>
    /\ pc = "start"
    /\ input = NoInput
    /\ errors = <<>>
    /\ InitArchive /\ InitLogVars /\ InitHandleVars /\ InitSchema

\* one call format_execution_summary(log, digest, workflow)
Render ==
    /\ pc = "start"
    /\ summaryOut' = format_execution_summary(renderIn.log, renderIn.digest,
                                              renderIn.workflow)
    /\ pc' = "rendered"
    /\ UNCHANGED <<input, errors, submitVars, streamVars, renderIn, logVars,
                   handleVars, schemaVars>>

NextRender == Render

SpecRender == InitRender /\ [][NextRender]_vars

(***************************************************************************)
(* Properties of the summary renderer                                      *)
(***************************************************************************)
IndexOf(doc, line) ==
    CHOOSE i \in 1..Len(doc) : doc[i] = line /\ \A j \in 1..(i - 1) : doc[j] # line

\* the k-th line after a section header
LineAfter(doc, header, k) == doc[IndexOf(doc, <<header>>) + k]

DeliveryLine(doc) == LineAfter(doc, "## Pipeline", 3)

CountLines(doc) ==
    LET i == IndexOf(doc, <<"## Top Stories">>) IN SubSeq(doc, i - 5, i - 1)

ZeroCounts ==
    << <<"## Output (", "0", " news)">>, <<"| Headlines | ", "0", " |">>,
       <<"| Research | ", "0", " |">>, <<"| Industry | ", "0", " |">>,
       <<"| Watching | ", "0", " |">> >>

NotDelivered == {<<WorkflowLog("w1", 1, <<"1", "a">>, FALSE, NULL, saved, 1)>> : saved \in BOOLEAN}

\* C15: format_execution_summary returns a document for absent inputs: without
\* a submission every category count and the total are zero, and without a
\* correlation record the delivery line differs from the one rendered for a
\* record saying that delivery did not occur.
C15_AbsentInputs ==
    pc = "rendered" =>
      /\ Len(summaryOut) > 0
      /\ Len(renderIn.digest) = 0 => CountLines(summaryOut) = ZeroCounts
      /\ Len(renderIn.workflow) = 0 =>
           \A w \in NotDelivered :
               DeliveryLine(summaryOut)
                 # DeliveryLine(format_execution_summary(renderIn.log,
                                                         renderIn.digest, w))


(***************************************************************************)
(* utils/execution_dir.py, loggers/execution_logger.py: the run            *)
(* directories logs_dir/<date>/<HHMMSS>_<execution id>.  A directory name  *)
(* is a sequence of characters, a path the pair <<date, name>>, and        *)
(* logsDir maps each existing path to the files of the directory; a file   *)
(* that does not exist is <<>>.                                            *)
(***************************************************************************)
TimeLen == 1       \* characters of the HHMMSS prefix of a directory name

\* `sub in s` of Python
RECURSIVE Contains(_, _)
Contains(s, sub) ==
    IF Len(sub) > Len(s) THEN FALSE
    ELSE SubSeq(s, 1, Len(sub)) = sub \/ Contains(Tail(s), sub)

NoFiles == [summary |-> <<>>, workflow |-> <<>>, digest |-> <<>>, log |-> <<>>]

\* ExecutionDirectory.__init__: mkdir(exist_ok=True) and the latest symlink
\* mutant: the time prefix and the id are joined without the separator
folder_name_joined(time_str, execution_id) == time_str \o execution_id

\* self.folder_name = f"{time_str}_{execution_id}"
folder_name(time_str, execution_id) == time_str \o <<"_">> \o execution_id

ExecutionDirectory(tree, execution_id, date, time) ==
    LET path == <<date, folder_name(time, execution_id)>>
    IN  [tree |-> IF path \in DOMAIN tree THEN tree
                  ELSE (path :> NoFiles) @@ tree,
         latest |-> path, path |-> path]

\* the directories the scan can stop at: the date partitions are visited from
\* the most recent one, the entries of one partition in the order of iterdir()
FirstMatches(tree, execution_id) ==
    LET m == {p \in DOMAIN tree : Contains(p[2], execution_id)}
    IN  {p \in m : \A q \in m : q[1] <= p[1]}

\* the outcomes of ExecutionLogger.get_execution_dir, none when it returns None
get_execution_dir(tree, execution_id) ==
    {[matched |-> p,
      dir |-> ExecutionDirectory(tree, execution_id, p[1],
                                 SubSeq(p[2], 1, TimeLen))] :
        p \in FirstMatches(tree, execution_id)}

\* ExecutionLogger.save(execution_log, exec_dir, digest) as the handlers call it
ExecutionLogger_save(files, execution_log, digest) ==
    [files EXCEPT !.digest = IF Len(digest) > 0 THEN digest ELSE @,
                  !.summary = format_execution_summary(execution_log, digest, <<>>),
                  !.log = <<execution_log>>]


(***************************************************************************)
(* loggers/workflow_logger.py                                              *)
(***************************************************************************)
\* format_workflow_markdown: the lines that depend on the record
format_workflow_markdown(log) ==
    << <<"**Status:** ", Mark(log.status = "success"), " ", log.status>>,
       <<"**ID:** ", log.workflow_execution_id>>,
       <<"**Claude ID:** ">>
           \o (IF Len(log.claude_execution_id) > 0
               THEN log.claude_execution_id ELSE <<"N/A">>),
       <<"| Database | ", IF log.db_saved THEN "[+] Saved" ELSE "[x] Not saved",
         " | ", IF log.digest_id # NoId THEN "digest_id=" ELSE "",
         IF log.digest_id # NoId THEN Str(log.digest_id) ELSE "", " |">>,
       <<"| Discord | ", IF log.discord_sent THEN "[+] Sent" ELSE "[x] Not sent",
         " | ", IF log.discord_message_id # NULL THEN "msg=" ELSE "",
         IF log.discord_message_id # NULL THEN log.discord_message_id ELSE "",
         " |">> >>

\* mutant: only a directory named after exactly this id is found
_find_execution_dir_exact(tree, execution_id) ==
    {p \in FirstMatches(tree, execution_id) :
        SubSeq(p[2], TimeLen + 2, Len(p[2])) = execution_id}

\* the directories _find_execution_dir can return, none when it returns None
_find_execution_dir(tree, execution_id) == FirstMatches(tree, execution_id)

\* _save_standalone: the name and the text of the file under workflows/
_save_standalone(workflow_log) ==
    [name |-> <<workflow_log.started_at, workflow_log.workflow_execution_id>>,
     text |-> format_workflow_markdown(workflow_log)]

_build_storage_update(workflow_log) ==
    LET db_line ==
          IF workflow_log.db_saved
          THEN StorageRow("| Database | ", "[+]",
                   <<"digest_id=", IdStr(workflow_log.digest_id), ", ",
                     Str(workflow_log.articles_saved), " articles">>)
          ELSE StorageRow("| Database | ", "[x]", <<"Not saved">>)
        discord_line ==
          IF workflow_log.discord_sent
          THEN StorageRow("| Discord | ", "[+]", DiscordDetails(workflow_log))
          ELSE StorageRow("| Discord | ", "[x]", <<"Not sent">>)
    IN  <<db_line, discord_line>>

\* re.sub(pattern, repl, line) for a pattern that is a literal text
RECURSIVE SubAll(_, _, _)
SubAll(line, pattern, repl) ==
    IF Len(line) < Len(pattern) THEN line
    ELSE IF SubSeq(line, 1, Len(pattern)) = pattern
    THEN repl \o SubAll(SubSeq(line, Len(pattern) + 1, Len(line)), pattern, repl)
    ELSE <<Head(line)>> \o SubAll(Tail(line), pattern, repl)

\* the tokens that hold the character |
HasPipe(token) ==
    token \in {"| Discord send | ", "| n8n collect | ", "| Claude analyze | ",
               "| Database | ", "| Discord | ", " | ", " |", " articles |",
               " deep-dives |", " | **Cost:** "}

\* one line matched by  \| <target> \| [^\|]+ \| [^\|]* \|
IsStorageRow(line, target) ==
    /\ Len(line) >= 4
    /\ line[1] = target
    /\ ~HasPipe(line[2])
    /\ line[3] = " | "
    /\ line[Len(line)] = " |"
    /\ \A k \in 4..(Len(line) - 1) : ~HasPipe(line[k])

\* re.sub(storage_pattern, storage_lines, content)
RECURSIVE SubStorage(_, _)
SubStorage(doc, storage_lines) ==
    IF Len(doc) < 2 THEN doc
    ELSE IF IsStorageRow(doc[1], "| Database | ")
            /\ IsStorageRow(doc[2], "| Discord | ")
    THEN storage_lines \o SubStorage(SubSeq(doc, 3, Len(doc)), storage_lines)
    ELSE <<Head(doc)>> \o SubStorage(Tail(doc), storage_lines)

\* re.sub raises re.error for a replacement text with an unknown escape
BadTemplate(storage_lines) ==
    \E i \in DOMAIN storage_lines :
        \E k \in DOMAIN storage_lines[i] : storage_lines[i][k] = "\\d"

\* the text of SUMMARY.md after _update_summary_storage_status
_update_summary_storage_status(summary, workflow_log) ==
    IF Len(summary) = 0 THEN summary
    ELSE LET content ==
               IF workflow_log.discord_sent
               THEN [i \in DOMAIN summary |->
                        SubAll(summary[i], DiscordSendRow("[x]"),
                               DiscordSendRow("[+]"))]
               ELSE summary
             storage_lines == _build_storage_update(workflow_log)
         IN  IF BadTemplate(storage_lines) THEN summary
             ELSE SubStorage(content, storage_lines)

\* the outcomes of WorkflowLogger.save(workflow_log) without execution_dir
WorkflowLogger_save(tree, files, workflow_log) ==
    LET found == IF Len(workflow_log.claude_execution_id) > 0
                 THEN _find_execution_dir(tree, workflow_log.claude_execution_id)
                 ELSE {}
        alone == _save_standalone(workflow_log)
    IN  IF found # {}
        THEN {[tree |-> [tree EXCEPT
                   ![p] = [@ EXCEPT
                       !.workflow = format_workflow_markdown(workflow_log),
                       !.summary = _update_summary_storage_status(@, workflow_log)]],
               files |-> files, matched |-> p, standalone |-> <<>>] :
                 p \in found}
        ELSE {[tree |-> tree,
               files |-> (alone.name :> alone.text) @@ files,
               matched |-> NoPath, standalone |-> alone.name]}


(***************************************************************************)
(* Specification of the run directories: runs create and fill them, the    *)
(* workflow reports are correlated with them, lookups scan them.           *)
(***************************************************************************)
RunIds == {<<"1", "a">>, <<"a", "a">>}      \* uuid4().hex[:12], two characters
RunTime == <<"1">>                           \* strftime("%H%M%S")
Queries == {<<>>, <<"a">>, <<"1">>, <<"1", "a">>, <<"z">>}

RunContents ==
    {[success |-> TRUE, error |-> NULL,
      digest |-> <<RenderDigest(<<RowTitle, PlainTitle>>, <<>>, 1)>>],
     [success |-> FALSE, error |-> "boom", digest |-> <<>>]}

CorrelationRecords ==
    {WorkflowLog("w1", 1, q, FALSE, NULL, FALSE, 1) : q \in Queries}
    \cup {WorkflowLog("w2", 1, q, TRUE, "77", TRUE, 1) :
              q \in {<<"a">>, <<"1", "a">>}}
    \cup {WorkflowLog("w1", 1, <<"1", "a">>, TRUE, "\\d", FALSE, 1)}

InitLogs ==
    /\ InitLogVars
    /\ pc = "serving"
    /\ input = NoInput
    /\ errors = <<>>
    /\ InitArchive /\ InitRenderVars /\ InitHandleVars /\ InitSchema

\* handle_summarize starts: ExecutionLogger.create_execution_dir
CreateExecutionDir(execution_id) ==
    /\ \A p \in DOMAIN logsDir : p[2] # folder_name(RunTime, execution_id)
    /\ \E d \in {ExecutionDirectory(logsDir, execution_id, today, RunTime)} :
           /\ logsDir' = d.tree
           /\ latest' = d.latest
           /\ runs' = (d.path :> [pc |-> "invoke", execution_id |-> execution_id])
                      @@ runs
    /\ UNCHANGED <<input, errors, pc, submitVars, streamVars, renderVars,
                   workflows, handle, calls, articlesFile, schemaVars>>

\* handle_summarize ends: ExecutionLogger.save(exec_log, exec_dir, digest)
SaveExecution(path, content) ==
    /\ path \in DOMAIN runs
    /\ \E log \in {create_execution_log(2, 65, content.success, content.error,
                                        123, Str(runs[path].execution_id),
                                        "ai-news", path[1])} :
           logsDir' = [logsDir EXCEPT
                          ![path] = ExecutionLogger_save(@, log, content.digest)]
    /\ runs' = [p \in DOMAIN runs \ {path} |-> runs[p]]
    /\ UNCHANGED <<input, errors, pc, submitVars, streamVars, renderVars,
                   workflows, latest, handle, calls, articlesFile,
                   schemaVars>>

\* one call ExecutionLogger.get_execution_dir(execution_id)
GetExecutionDir(execution_id) ==
    /\ calls < MaxCalls
    /\ calls' = calls + 1
    /\ IF get_execution_dir(logsDir, execution_id) = {}
       THEN /\ handle' = Handle("locate", execution_id, <<>>, NoPath, NoPath, <<>>)
            /\ UNCHANGED <<logsDir, latest>>
       ELSE \E o \in get_execution_dir(logsDir, execution_id) :
            /\ logsDir' = o.dir.tree
            /\ latest' = o.dir.latest
            /\ handle' = Handle("locate", execution_id, <<>>, o.matched,
                                o.dir.path, <<>>)
    /\ UNCHANGED <<input, errors, pc, submitVars, streamVars, renderVars,
                   workflows, handleVars, schemaVars>>

\* one call WorkflowLogger.save(workflow_log) by handle_log_workflow
SaveWorkflow(workflow_log) ==
    /\ calls < MaxCalls
    /\ calls' = calls + 1
    /\ \E o \in WorkflowLogger_save(logsDir, workflows, workflow_log) :
           /\ logsDir' = o.tree
           /\ workflows' = o.files
           /\ handle' = Handle("save", workflow_log.claude_execution_id,
                               <<workflow_log>>, o.matched, o.matched,
                               o.standalone)
    /\ UNCHANGED <<input, errors, pc, submitVars, streamVars, renderVars,
                   latest, handleVars, schemaVars>>

NextLogs ==
    \/ \E id \in RunIds : CreateExecutionDir(id)
    \/ \E p \in DOMAIN runs, c \in RunContents : SaveExecution(p, c)
    \/ \E q \in Queries \ {<<"1">>} : GetExecutionDir(q)
    \/ \E w \in CorrelationRecords : SaveWorkflow(w)
    \/ NextDay

SpecLogs == InitLogs /\ [][NextLogs]_vars


(***************************************************************************)
(* Properties of the run directories                                       *)
(***************************************************************************)
\* id occurs in name as a run of consecutive characters
NameHas(name, id) ==
    \E i \in 1..(Len(name) + 1) :
        \E j \in (i - 1)..Len(name) : SubSeq(name, i, j) = id

NamedDirs(tree, id) == {p \in DOMAIN tree : NameHas(p[2], id)}

LocateStep == calls' # calls /\ handle'.op = "locate"
CorrelateStep == calls' # calls /\ handle'.op = "save"

\* C13: WorkflowLogger.save without a run handle writes the report into a run
\* directory whose name contains the record's run identifier when there is
\* one; without identifier or without such a directory it writes the file
\* workflows/<start time>_<workflow execution id> and changes no run directory.
C13_CorrelateOrStandalone ==
    [][CorrelateStep =>
        LET wf == handle'.record[1]
            id == wf.claude_execution_id
            alone == <<wf.started_at, wf.workflow_execution_id>>
        IN  IF id # <<>> /\ NamedDirs(logsDir, id) # {}
            THEN /\ handle'.path \in NamedDirs(logsDir, id)
                 /\ logsDir'[handle'.path].workflow = format_workflow_markdown(wf)
                 /\ \A p \in DOMAIN logsDir \ {handle'.path} :
                        logsDir'[p] = logsDir[p]
                 /\ workflows' = workflows
            ELSE /\ logsDir' = logsDir
                 /\ handle'.path = NoPath
                 /\ handle'.standalone = alone
                 /\ DOMAIN workflows' = DOMAIN workflows \cup {alone}
                 /\ workflows'[alone] = format_workflow_markdown(wf)
                 /\ \A n \in DOMAIN workflows \ {alone} :
                        workflows'[n] = workflows[n]]_vars

\* a report was filed in a run directory, next to its summary, through a
\* proper substring of its name
C13_Witness ==
    /\ handle.op = "save"
    /\ handle.path \in DOMAIN logsDir
    /\ logsDir[handle.path].summary # <<>>
    /\ logsDir[handle.path].workflow # <<>>
    /\ logsDir[handle.path].workflow[3] = <<"**Claude ID:** ", "a">>

Header(doc) == SubSeq(doc, 1, IndexOf(doc, <<"## Pipeline">>) - 1)

TopItems(doc) ==
    SubSeq(doc, IndexOf(doc, <<"## Top Stories">>) + 1,
           IndexOf(doc, <<"## Storage">>) - 1)

\* C14: when a report whose delivery flag is true is correlated with a run
\* directory whose summary was rendered without correlation record, the
\* delivery line of the summary becomes the confirmed one, and the status,
\* duration and cost, the two other pipeline lines, the counts and the top
\* items stay as they were.
C14_DeliveryConfirmed ==
    [][(CorrelateStep /\ handle'.matched # NoPath) =>
        LET wf == handle'.record[1]
            old == logsDir[handle'.matched]
            new == logsDir'[handle'.matched].summary
        IN  ( /\ wf.discord_sent
              /\ old.log # <<>>
              /\ old.summary
                   = format_execution_summary(old.log[1], old.digest, <<>>) )
            => /\ DeliveryLine(new) = DiscordSendRow("[+]")
               /\ Header(new) = Header(old.summary)
               /\ LineAfter(new, "## Pipeline", 1)
                    = LineAfter(old.summary, "## Pipeline", 1)
               /\ LineAfter(new, "## Pipeline", 2)
                    = LineAfter(old.summary, "## Pipeline", 2)
               /\ CountLines(new) = CountLines(old.summary)
               /\ TopItems(new) = TopItems(old.summary)]_vars

\* C17: get_execution_dir returns None exactly when no directory name contains
\* the id; otherwise the path of the handle it returns is an existing
\* directory whose name contains the id, of the most recent date that has one.
C17_LocateExisting ==
    [][LocateStep =>
        LET m == NamedDirs(logsDir, handle'.query)
        IN  IF m = {} THEN handle'.path = NoPath
            ELSE /\ handle'.path \in m
                 /\ \A p \in m : p[1] <= handle'.path[1]]_vars


(***************************************************************************)
(* services/claude_service.py, services/digest_service.py, api/handlers.py *)
(***************************************************************************)
retry_count == 1   \* Settings.retry_count

\* what the agent finds in articles.json after write_articles_file
write_articles_file(request_articles) ==
    <<[k \in 1..Len(request_articles) |->
          [title |-> request_articles[k].title, url |-> request_articles[k].url]]>>

TimeoutMessage == "Claude CLI timeout after 600s"
ExitMessage(returncode) == "Claude CLI failed (code " \o Str(returncode) \o ")"

\* ClaudeResult(success=False, error=...)
ClaudeFailure(error) == [NoResult EXCEPT !.error = error]

\* mutant: a clean exit is taken for a failure too
Failed_always(returncode) == TRUE

\* if process.returncode != 0
Failed(returncode) == returncode # 0

\* if attempt < settings.retry_count
MayRetry(attempt) == attempt < retry_count

\* read_digest_file: the parsed digest.json, None when the file is missing
read_digest_file(files) == files.digest

\* mutant: a digest without digest_id counts as saved
NotSaved_never(success, digest_id) == FALSE

\* if success and digest_id is None
NotSaved(success, digest_id) == success /\ digest_id = NoId

_determine_result_status(result, digest) ==
    LET success == result.success /\ Len(digest) > 0
        digest_id == IF Len(digest) > 0 THEN Get(digest[1], "digest_id", NoId)
                     ELSE NoId
    IN  IF NotSaved(success, digest_id)
        THEN [success |-> FALSE,
              error |-> "Digest created but not saved to database",
              digest_id |-> digest_id]
        ELSE [success |-> success,
              error |-> IF success THEN NULL
                        ELSE IF ~result.success THEN result.error
                        ELSE IF Len(digest) = 0
                        THEN "Claude did not call submit_digest tool"
                        ELSE NULL,
              digest_id |-> digest_id]

\* SummarizeResponse
Response(success, error, execution_id, log_file, digest, digest_id) ==
    [success |-> success, error |-> error, execution_id |-> execution_id,
     log_file |-> log_file, digest |-> digest, digest_id |-> digest_id]

NoResp == Response(FALSE, NULL, <<>>, NoPath, <<>>, NoId)

\* what _build_summarize_response writes and returns
_build_summarize_response(request_articles, result, files, digest, duration, execution_id, path, now) ==
    LET exec_log == create_execution_log(Len(request_articles), duration,
                        result.success, result.error, result.cost_usd,
                        Str(execution_id), "ai-news", now)
        status == _determine_result_status(result, digest)
    IN  [files |-> ExecutionLogger_save(files, exec_log, digest),
         resp |-> Response(status.success, status.error, execution_id, path,
                           digest, status.digest_id)]


(***************************************************************************)
(* Specification of the orchestrator: handle_summarize calls in progress,  *)
(* each at one of its suspension points, and the agent subprocesses that   *)
(* call_claude_cli has spawned for them.  A run is named by its execution  *)
(* id; runs[r].procs lists the subprocesses of r in the order of spawning. *)
(***************************************************************************)
RequestArticles(r) == <<[title |-> Str(r), url |-> "u"]>>

GoodOutput ==
    <<Line("json", [type |-> "result", result |-> "r1", total_cost_usd |-> 5,
                    usage |-> Usage(10, 20, 1, 2)])>>
ScalarOutput == <<Line("scalar", [text |-> "42"])>>
ErrorOutput == <<Line("json", [type |-> "error"])>>

\* how a subprocess can end: its return code and its stdout
Exits ==
    {<<0, GoodOutput>>, <<0, ScalarOutput>>, <<0, ErrorOutput>>, <<0, <<>>>>,
     <<1, <<>>>>}

NewProc == [state |-> "running", read |-> <<>>, seen |-> "pending"]

RECURSIVE Spawned(_)
\* the subprocesses spawned so far, over all runs
Spawned(rs) ==
    IF DOMAIN rs = {} THEN 0
    ELSE LET r == CHOOSE x \in DOMAIN rs : TRUE
         IN  Len(rs[r].procs) + Spawned([x \in DOMAIN rs \ {r} |-> rs[x]])

handleFrame == <<input, errors, pc, submitVars, streamVars, renderVars,
                 workflows, handle, calls, schemaVars>>

InitHandle ==
    /\ InitHandleVars
    /\ pc = "serving"
    /\ input = NoInput
    /\ errors = <<>>
    /\ InitArchive /\ InitRenderVars /\ InitLogVars /\ InitSchema

\* handle_summarize up to its first await
Begin(r, valid) ==
    /\ r \notin DOMAIN runs
    /\ IF valid
       THEN \E d \in {ExecutionDirectory(logsDir, r, today, RunTime)} :
              /\ logsDir' = d.tree
              /\ latest' = d.latest
              /\ articlesFile' = write_articles_file(RequestArticles(r))
              /\ runs' = (r :> [pc |-> "spawn", attempt |-> 0, procs |-> <<>>,
                                result |-> NoResult, exec_dir |-> d.path,
                                resp |-> NoResp, raised |-> "none"]) @@ runs
       ELSE /\ runs' = (r :> [pc |-> "done", attempt |-> 0, procs |-> <<>>,
                              result |-> NoResult, exec_dir |-> NoPath,
                              resp |-> Response(FALSE, "Unknown mission", <<>>,
                                                NoPath, <<>>, NoId),
                              raised |-> "none"]) @@ runs
            /\ UNCHANGED <<logsDir, latest, articlesFile>>
    /\ UNCHANGED handleFrame

\* await asyncio.create_subprocess_exec(...): the subprocess starts, or the
\* call raises OSError, which nothing in call_claude_cli or handle_summarize
\* catches
Spawn(r, ok) ==
    /\ r \in DOMAIN runs /\ runs[r].pc = "spawn"
    /\ Spawned(runs) < MaxProcs
    /\ runs' = [runs EXCEPT ![r] =
                   IF ok THEN [@ EXCEPT !.procs = Append(@, NewProc),
                                        !.pc = "wait"]
                   ELSE [@ EXCEPT !.pc = "raised", !.raised = "spawn"]]
    /\ UNCHANGED <<handleFrame, logsDir, latest, articlesFile>>

\* a running agent reads articles.json
AgentRead(r, i) ==
    /\ r \in DOMAIN runs /\ i \in DOMAIN runs[r].procs
    /\ runs[r].procs[i].state = "running"
    /\ runs[r].procs[i].read = <<>>
    /\ runs' = [runs EXCEPT ![r].procs[i].read = articlesFile]
    /\ UNCHANGED <<handleFrame, logsDir, latest, articlesFile>>

\* a running agent calls submit_digest, which writes digest.json into
\* EXECUTION_DIR, with digest_id when the database took the digest
AgentSubmit(r, i, digest_id) ==
    /\ r \in DOMAIN runs /\ i \in DOMAIN runs[r].procs
    /\ runs[r].procs[i].state = "running"
    /\ logsDir[runs[r].exec_dir].digest = <<>>
    /\ logsDir' = [logsDir EXCEPT ![runs[r].exec_dir].digest =
                      write_digest_to_file(
                          RenderDigest(<<PlainTitle>>, <<>>, digest_id),
                          ExecutionId)]
    /\ UNCHANGED <<handleFrame, runs, latest, articlesFile>>

\* call_claude_cli after process.communicate() returned
AfterExit(run, returncode, stdout) ==
    IF Failed(returncode)
    THEN IF MayRetry(run.attempt)
         THEN [run EXCEPT !.attempt = @ + 1, !.pc = "sleep"]
         ELSE [run EXCEPT !.result = ClaudeFailure(ExitMessage(returncode)),
                          !.pc = "respond"]
    ELSE IF parse_stream_output(stdout).raised
         THEN [run EXCEPT !.pc = "raised", !.raised = "parse"]
         ELSE [run EXCEPT !.result = parse_stream_output(stdout),
                          !.pc = "respond"]

\* a subprocess ends; communicate() returns if the handler still awaits it
AgentExit(r, i, returncode, stdout) ==
    /\ r \in DOMAIN runs /\ i \in DOMAIN runs[r].procs
    /\ runs[r].procs[i].state = "running"
    /\ LET awaited == runs[r].pc = "wait" /\ i = Len(runs[r].procs)
           ended == [runs[r] EXCEPT
                        !.procs[i].state = "exited",
                        !.procs[i].seen = IF ~awaited THEN @
                                          ELSE IF returncode = 0 THEN "clean"
                                          ELSE "failed"]
       IN  runs' = [runs EXCEPT ![r] =
                       IF awaited THEN AfterExit(ended, returncode, stdout)
                       ELSE ended]
    /\ UNCHANGED <<handleFrame, logsDir, latest, articlesFile>>

\* asyncio.wait_for gives up: communicate() is cancelled, the subprocess is
\* neither killed nor waited for
Timeout(r) ==
    /\ r \in DOMAIN runs /\ runs[r].pc = "wait"
    /\ runs[r].procs[Len(runs[r].procs)].state = "running"
    /\ LET last == Len(runs[r].procs)
           seen == [runs[r] EXCEPT !.procs[last].seen = "timeout"]
       IN  runs' = [runs EXCEPT ![r] =
                       IF MayRetry(seen.attempt)
                       THEN [seen EXCEPT !.attempt = @ + 1, !.pc = "spawn"]
                       ELSE [seen EXCEPT
                                !.result = ClaudeFailure(TimeoutMessage),
                                !.pc = "respond"]]
    /\ UNCHANGED <<handleFrame, logsDir, latest, articlesFile>>

\* await asyncio.sleep(2) is over
Wake(r) ==
    /\ r \in DOMAIN runs /\ runs[r].pc = "sleep"
    /\ runs' = [runs EXCEPT ![r].pc = "spawn"]
    /\ UNCHANGED <<handleFrame, logsDir, latest, articlesFile>>

\* handle_summarize after call_claude_cli returned
Respond(r) ==
    /\ r \in DOMAIN runs /\ runs[r].pc = "respond"
    /\ \E out \in {_build_summarize_response(RequestArticles(r), runs[r].result,
                       logsDir[runs[r].exec_dir],
                       read_digest_file(logsDir[runs[r].exec_dir]), 65, r,
                       runs[r].exec_dir, today)} :
           /\ logsDir' = [logsDir EXCEPT ![runs[r].exec_dir] = out.files]
           /\ runs' = [runs EXCEPT ![r].resp = out.resp, ![r].pc = "done"]
    /\ UNCHANGED <<handleFrame, latest, articlesFile>>

NextHandle ==
    \/ \E r \in RunIds, valid \in BOOLEAN : Begin(r, valid)
    \/ \E r \in RunIds, ok \in BOOLEAN : Spawn(r, ok)
    \/ \E r \in RunIds, i \in 1..(retry_count + 1) : AgentRead(r, i)
    \/ \E r \in RunIds, i \in 1..(retry_count + 1), id \in {NoId, 1} :
           AgentSubmit(r, i, id)
    \/ \E r \in RunIds, i \in 1..(retry_count + 1), e \in Exits :
           AgentExit(r, i, e[1], e[2])
    \/ \E r \in RunIds : Timeout(r)
    \/ \E r \in RunIds : Wake(r)
    \/ \E r \in RunIds : Respond(r)

SpecHandle == InitHandle /\ [][NextHandle]_vars


Allocated(r) == r \in DOMAIN runs /\ runs[r].exec_dir # NoPath
LastProc(r) == runs[r].procs[Len(runs[r].procs)]
Returned(r) == Allocated(r) /\ runs[r].pc \in {"respond", "done"}

\* the error call_claude_cli builds for an attempt that ended as `seen`
AttemptError(seen) ==
    IF seen = "timeout" THEN "Claude CLI timeout after 600s"
    ELSE "Claude CLI failed (code 1)"

C12_FailuresReturned ==
    \A r \in DOMAIN runs :
        /\ runs[r].raised # "spawn"
        /\ (Allocated(r) /\ runs[r].pc = "done"
              /\ LastProc(r).seen \in {"timeout", "failed"}) =>
               /\ ~runs[r].resp.success /\ runs[r].resp.error # NULL
               /\ logsDir[runs[r].exec_dir].summary # <<>>

Running(r) == {i \in DOMAIN runs[r].procs : runs[r].procs[i].state = "running"}

C18_NonOverlapping == \A r \in DOMAIN runs : Cardinality(Running(r)) <= 1

(***************************************************************************)
(* C19: what a subprocess of a run has read from articles.json is what was *)
(* submitted with that run.                                                *)
(***************************************************************************)
C19_OwnArticles ==
    \A r \in DOMAIN runs : \A i \in DOMAIN runs[r].procs :
        runs[r].procs[i].read \in {<<>>, write_articles_file(RequestArticles(r))}

(***************************************************************************)
(* C20: when the response of a run has success=false, the SUMMARY.md of    *)
(* the run records the status FAILED and an error section.                 *)
(***************************************************************************)
RecordsFailure(doc) ==
    /\ \E i \in DOMAIN doc : doc[i] = <<"**Status:** [", "x", "] ", "FAILED">>
    /\ \E i \in DOMAIN doc : doc[i] = <<"## Error">> /\ i < Len(doc)

C20_FailureRecorded ==
    \A r \in DOMAIN runs :
        (Allocated(r) /\ runs[r].pc = "done" /\ ~runs[r].resp.success) =>
            RecordsFailure(logsDir[runs[r].exec_dir].summary)


\* C21: when the report is filed in a matching run directory that has a
\* summary and patching the summary fails, save raises nothing and writes the
\* standalone file workflows/<start time>_<workflow execution id> as well.
C21_PatchFailureFallback ==
    [][(CorrelateStep /\ handle'.matched # NoPath) =>
        LET wf == handle'.record[1]
            alone == <<wf.started_at, wf.workflow_execution_id>>
        IN  ( /\ logsDir[handle'.matched].summary # <<>>
              /\ BadTemplate(_build_storage_update(wf)) )
            => /\ logsDir'[handle'.matched].workflow
                    = format_workflow_markdown(wf)
               /\ handle'.standalone = alone
               /\ alone \in DOMAIN workflows'
               /\ workflows'[alone] = format_workflow_markdown(wf)]_vars

\* C22: a run comes to spawn a further subprocess only out of the delay
\* asyncio.sleep(2), after a non-zero exit and after a timeout alike.
C22_DelayBetweenAttempts ==
    [][\A r \in DOMAIN runs :
          ( /\ runs'[r].pc = "spawn" /\ runs[r].pc # "spawn"
            /\ Len(runs[r].procs) > 0 )
          => runs[r].pc = "sleep"]_vars


\* the events of the lines that hold a JSON object, in the order of the lines
EventsOf(lines) ==
    LET objects == SelectSeq(lines, LAMBDA l : l.kind = "json")
    IN  [k \in 1..Len(objects) |-> _parse_stream_event(objects[k])]

\* C24: the reduction of an output never fails on a line that is not an event
\* record (blank, not JSON, or JSON that is not an object): such a line is
\* skipped, and the timeline is the events of the other lines in their order.
C24_MalformedSkipped ==
    pc = "parsed" =>
        /\ ~claudeResult.raised
        /\ claudeResult.timeline = EventsOf(stream)

\* C23: call_claude_cli returns success=true exactly when the subprocess of
\* its last attempt was seen to exit with code 0, whatever its stdout holds
\* and whether or not digest.json exists.
C23_SuccessIffCleanExit ==
    \A r \in DOMAIN runs :
        (Allocated(r) /\ runs[r].procs # <<>>) =>
            /\ (Returned(r) /\ runs[r].result.success)
                   => LastProc(r).seen = "clean"
            /\ LastProc(r).seen = "clean"
                   => (Returned(r) /\ runs[r].result.success)


(***************************************************************************)
(* The DigestSubmission invariant of the data model (mcp_tools/models.py)  *)
(***************************************************************************)
\* confidence: float, ge=0, le=1
ConfidenceInDomain(x) == IsNumber(x) /\ x.v10 >= 0 /\ x.v10 <= 10
\* score: int, ge=1, le=10
ScoreIsInteger(x) == x.t = "int" /\ x.v10 >= 10 /\ x.v10 <= 100

DigestSubmissionInvariant(sub) ==
    /\ \A sec \in SectionNames : \A k \in 1..Len(sub[sec]) :
          /\ NEWS_ITEM_REQUIRED_FIELDS \subseteq DOMAIN sub[sec][k]
          /\ ConfidenceInDomain(sub[sec][k]["confidence"])
    /\ \A k \in 1..Len(sub.excluded) :
          /\ EXCLUDED_ITEM_REQUIRED_FIELDS \subseteq DOMAIN sub.excluded[k]
          /\ sub.excluded[k]["reason"] \in VALID_EXCLUSION_REASONS
          /\ ScoreIsInteger(sub.excluded[k]["score"])

\* what submit answers to sub on an empty database that is in order
Archived(sub) ==
    submit(Cursor({}, {}, {}, 0, 0, -1), <<>>, "ok", ExecutionId, sub, 1)

\* C25: a submission that submit accepts and archives has, on every item, all
\* required fields, a confidence in 0..1 on every selected item, and on every
\* excluded item a reason of the enumeration and an integer score in 1..10.
C25_ArchivedInvariant ==
    (pc = "validated" /\ errors = <<>>
       /\ Archived(input).response.status = "success"
       /\ Archived(input).response.db_saved)
    => DigestSubmissionInvariant(input)


\* the directory allocated for the run id
AllocatedFor(tree, id) == {p \in DOMAIN tree : p[2] = folder_name(RunTime, id)}

\* C26: a report whose run identifier is the id of an allocated run is
\* written into the directory allocated for that run, and the directories of
\* the other runs stay as they were.
C26_OwnDirectory ==
    [][CorrelateStep =>
        LET id == handle'.record[1].claude_execution_id
            own == AllocatedFor(logsDir, id)
        IN  (id \in RunIds /\ own # {}) =>
              /\ handle'.path \in own
              /\ logsDir'[handle'.path].workflow
                   = format_workflow_markdown(handle'.record[1])
              /\ \A p \in DOMAIN logsDir \ own : logsDir'[p] = logsDir[p]]_vars

\* both runs have their directory and the report of one of them was filed
C26_Witness ==
    /\ handle.op = "save"
    /\ handle.query = <<"1", "a">>
    /\ \A id \in RunIds : AllocatedFor(logsDir, id) # {}
    /\ handle.path \in AllocatedFor(logsDir, <<"1", "a">>)
    /\ logsDir[handle.path].workflow # <<>>
    /\ \A p \in AllocatedFor(logsDir, <<"a", "a">>) : logsDir[p].workflow = <<>>


DatabaseRow(doc) == LineAfter(doc, "## Storage", 1)
DiscordRow(doc) == LineAfter(doc, "## Storage", 2)

\* C28: when the summary of the matched run shows the database row as saved
\* with the digest_id of the digest before the report is filed, the row still
\* shows saved afterwards, whatever the report's db_saved flag is.
C28_NoDowngrade ==
    [][(CorrelateStep /\ handle'.matched # NoPath) =>
        LET old == logsDir[handle'.matched]
            new == logsDir'[handle'.matched].summary
        IN  ( /\ old.summary # <<>> /\ old.digest # <<>>
              /\ Get(old.digest[1], "digest_id", NoId) # NoId
              /\ DatabaseRow(old.summary)
                   = StorageRow("| Database | ", "[+]",
                         <<"digest_id=", IdStr(old.digest[1].digest_id)>>) )
            => DatabaseRow(new)[2] = "[+]"]_vars

(***************************************************************************)
(* Specification of the reports patched into one summary: the SUMMARY.md   *)
(* that ExecutionLogger.save wrote for a run, and the reports that name    *)
(* the run, each applied by _update_summary_storage_status.                *)
(***************************************************************************)
PatchRecords ==
    {WorkflowLog("w1", 1, <<"1", "a">>, sent, m, saved, 1) :
        sent \in BOOLEAN, saved \in BOOLEAN, m \in {NULL, "77"}}

InitPatch ==
    /\ \E log \in RenderLogs, digest \in RenderDigests :
           /\ renderIn = [log |-> log, digest |-> digest, workflow |-> <<>>]
           /\ summaryOut = format_execution_summary(log, digest, <<>>)
    /\ pc = "saved"
    /\ input = NoInput
    /\ errors = <<>>
    /\ InitArchive /\ InitLogVars /\ InitHandleVars /\ InitSchema

\* one report for the run: WorkflowLogger.save patches the summary
Patch(workflow_log) ==
    /\ calls < MaxPatches
    /\ calls' = calls + 1
    /\ summaryOut' = _update_summary_storage_status(summaryOut, workflow_log)
    /\ handle' = Handle("patch", workflow_log.claude_execution_id,
                        <<workflow_log>>, NoPath, NoPath, <<>>)
    /\ UNCHANGED <<input, errors, pc, submitVars, streamVars, renderIn,
                   logsDir, workflows, latest, handleVars, schemaVars>>

NextPatch == \E w \in PatchRecords : Patch(w)

SpecPatch == InitPatch /\ [][NextPatch]_vars

\* C27: in the summary of a run the pipeline line of the delivery shows [+]
\* exactly when the storage row of the delivery does, after every sequence of
\* reports.
C27_DeliveryFieldsAgree ==
    (DeliveryLine(summaryOut) = DiscordSendRow("[+]"))
        <=> (DiscordRow(summaryOut)[2] = "[+]")


\* C30: the articles_saved count that a successful archive reports
\* (total_archived in the response) is the number of article rows the call
\* added to the table.
C30_ItemsSavedCount ==
    [][(hist' # hist /\ response'.status = "success" /\ response'.db_saved)
         => response'.total_archived
              = Cardinality(articles') - Cardinality(articles)]_vars


(***************************************************************************)
(* Specification of concurrent archives: the transactions of the tool      *)
(* subprocesses of two runs on one PostgreSQL database, at the default     *)
(* isolation level READ COMMITTED.  Each holds the statements of           *)
(* _save_to_database for a submission of one headline of the category      *)
(* TxCategory; runs[r] is the transaction of the subprocess of run r: its  *)
(* position and the rows it has written and not yet committed.             *)
(* daily_digests is unique on (mission_id, date) and articles on url (the  *)
(* ON CONFLICT clauses name them); whether categories is unique on         *)
(* (mission_id, name) is drawn by InitConcurrent.                          *)
(***************************************************************************)
TxMission == "ai-news"
TxCategory == "c1"
TxUrl(r) == IF r = <<"1", "a">> THEN "u1" ELSE "u2"

InProgress(r) == r \in DOMAIN runs /\ runs[r].pc \notin {"done", "failed"}
Others(r) == {o \in DOMAIN runs \ {r} : InProgress(o)}

IsCategory(row) == row.mission_id = TxMission /\ row.name = TxCategory

InitConcurrent ==
    /\ categoryNameUnique \in BOOLEAN
    /\ pc = "archiving"
    /\ input = NoInput
    /\ errors = <<>>
    /\ InitArchive /\ InitRenderVars /\ InitLogVars /\ InitHandleVars

txFrame == <<input, errors, pc, today, file, connects, response, hist,
             streamVars, renderVars, logVars, articlesFile, schemaVars>>

\* get_db_connection(): psycopg2 opens the transaction at the first statement
Connect(r) ==
    /\ r \notin DOMAIN runs
    /\ runs' = (r :> [pc |-> "upsert", date |-> 0, digest_id |-> NoId,
                      category_id |-> NoId, cats |-> {}, digs |-> {},
                      arts |-> {}]) @@ runs
    /\ UNCHANGED <<txFrame, dbVars>>

\* insert_daily_digest(cur, mission_id, date.today(), content): waits while
\* another transaction holds the row of this (mission_id, date)
UpsertDigest(r) ==
    /\ r \in DOMAIN runs /\ runs[r].pc = "upsert"
    /\ \A o \in Others(r) : \A d \in runs[o].digs :
           ~(d.mission_id = TxMission /\ d.date = today)
    /\ LET rows == {d \in digests : d.mission_id = TxMission /\ d.date = today}
           id == IF rows # {} THEN (CHOOSE d \in rows : TRUE).id
                 ELSE digestSeq + 1
       IN  /\ runs' = [runs EXCEPT ![r] =
                          [@ EXCEPT !.pc = "select", !.date = today,
                                    !.digest_id = id,
                                    !.digs = {[id |-> id,
                                               mission_id |-> TxMission,
                                               date |-> today,
                                               content |-> r]}]]
           /\ digestSeq' = IF rows # {} THEN digestSeq ELSE id
    /\ UNCHANGED <<txFrame, categories, digests, articles, catSeq>>

\* get_or_create_category: the SELECT sees the committed rows and its own
SelectCategory(r) ==
    /\ r \in DOMAIN runs /\ runs[r].pc = "select"
    /\ LET rows == {c \in categories \cup runs[r].cats : IsCategory(c)}
       IN  IF rows = {}
           THEN runs' = [runs EXCEPT ![r].pc = "insert"]
           ELSE \E c \in rows :
                    runs' = [runs EXCEPT ![r].pc = "article",
                                         ![r].category_id = c.id]
    /\ UNCHANGED <<txFrame, dbVars>>

\* get_or_create_category: the INSERT.  With the unique constraint it waits
\* for a transaction that has inserted the same name, and raises
\* UniqueViolation when such a row is committed: _save_to_database rolls back
InsertCategory(r) ==
    /\ r \in DOMAIN runs /\ runs[r].pc = "insert"
    /\ categoryNameUnique =>
           \A o \in Others(r) : \A c \in runs[o].cats : ~IsCategory(c)
    /\ catSeq' = catSeq + 1
    /\ IF categoryNameUnique /\ \E c \in categories : IsCategory(c)
       THEN runs' = [runs EXCEPT ![r] =
                        [@ EXCEPT !.pc = "failed", !.digest_id = NoId,
                                  !.cats = {}, !.digs = {}, !.arts = {}]]
       ELSE runs' = [runs EXCEPT ![r] =
                        [@ EXCEPT !.pc = "article",
                                  !.category_id = catSeq + 1,
                                  !.cats = {[id |-> catSeq + 1,
                                             mission_id |-> TxMission,
                                             name |-> TxCategory]}]]
    /\ UNCHANGED <<txFrame, categories, digests, articles, digestSeq>>

\* insert_selected_article: ON CONFLICT (url) DO NOTHING
InsertSelected(r) ==
    /\ r \in DOMAIN runs /\ runs[r].pc = "article"
    /\ \A o \in Others(r) : \A a \in runs[o].arts : a.url # TxUrl(r)
    /\ LET row == [url |-> TxUrl(r), category_id |-> runs[r].category_id,
                   daily_digest_id |-> runs[r].digest_id]
       IN  runs' = [runs EXCEPT ![r] =
                       [@ EXCEPT !.pc = "commit",
                                 !.arts = IF \E a \in articles : a.url = row.url
                                          THEN {} ELSE {row}]]
    /\ UNCHANGED <<txFrame, dbVars>>

\* conn.commit()
Commit(r) ==
    /\ r \in DOMAIN runs /\ runs[r].pc = "commit"
    /\ categories' = categories \cup runs[r].cats
    /\ digests' = {d \in digests : \A n \in runs[r].digs : n.id # d.id}
                  \cup runs[r].digs
    /\ articles' = articles \cup runs[r].arts
    /\ runs' = [runs EXCEPT ![r] =
                   [@ EXCEPT !.pc = "done", !.cats = {}, !.digs = {},
                             !.arts = {}]]
    /\ UNCHANGED <<txFrame, catSeq, digestSeq>>

NextConcurrent ==
    \/ \E r \in RunIds : Connect(r)
    \/ \E r \in RunIds : UpsertDigest(r)
    \/ \E r \in RunIds : SelectCategory(r)
    \/ \E r \in RunIds : InsertCategory(r)
    \/ \E r \in RunIds : InsertSelected(r)
    \/ \E r \in RunIds : Commit(r)
    \/ NextDay

SpecConcurrent == InitConcurrent /\ [][NextConcurrent]_vars

\* C29: with two archives that name the same new category of one mission,
\* the table never holds two rows of that (mission_id, name), the archives
\* that resolved the category hold the same id, and none is rolled back.
C29_CategoryRace ==
    /\ Cardinality({c \in categories : IsCategory(c)}) <= 1
    /\ \A r \in DOMAIN runs : runs[r].pc # "failed"
    /\ \A r, o \in DOMAIN runs :
           (runs[r].pc \in {"commit", "done"} /\ runs[o].pc \in {"commit", "done"})
               => runs[r].category_id = runs[o].category_id

====
